---------------------------- MODULE Spec2Model ----------------------------
(***************************************************************************)
(* Conjugat: the prompt/filter engine of the practice UI (App.jsx), the    *)
(* conjugation-table parser of the dataset builder, and the UI's filter    *)
(* handlers, as state machines.                                            *)
(*                                                                         *)
(* Strings are TLA+ strings (Len, SubSeq and \o act on them as on          *)
(* sequences of characters).  A JavaScript object is a function whose      *)
(* DOMAIN is the set of the keys it has, so a missing key is a missing     *)
(* element of the DOMAIN.  A falsy lastKey (null, undefined) is "".        *)
(***************************************************************************)
EXTENDS Integers, Sequences, FiniteSets, TLC

VARIABLES
  verbs,           \* the imported dataset (src/data/verbs.json), a sequence
  enabledPersons,  \* useState: person -> BOOLEAN
  enabledTenses,   \* useState: tense -> BOOLEAN
  verbFilters,     \* useState: [regular, irregular]
  verbLimit,       \* useState: rank limit
  currentPrompt,   \* useState: the displayed prompt or Null
  configError,     \* useState: the configuration-error flag
  storedSettings,  \* localStorage "conjugat_settings": <<>> or <<settings>>
  mounted,         \* whether the mount effects of this page load have run
  build,           \* which App component runs: "current" or "legacy"
  html,            \* the text handed to a parser: a page, a table, a dictionary
  call,            \* the last operation applied, its arguments and its result
  script,          \* the run of the build script: its position and its locals
  files,           \* the files of the build script: path -> content
  net,             \* the servers: resource -> what a request for it returns
  inputValue,      \* useState: the text of the answer input
  hintedIndices,   \* useState: the 0-based positions a hint filled in
  hintsUsed,       \* useState: the hints taken on the displayed prompt
  dailyGoal,       \* useState: the daily goal
  dailyProgress,   \* useState: the answers completed on dailyDateKey
  dailyDateKey,    \* useState: the day dailyProgress counts
  today,           \* the clock: the day getLocalDateKey() returns
  timer,           \* the pending answer-completion timeout and its closure
  isInitialized,   \* analytics.js: the backend has been initialised
  analyticsEnabled,\* analytics.js: the user's choice as the module holds it
  apiKey,          \* import.meta.env.VITE_AMPLITUDE_KEY: configured or not
  backend          \* the analytics backend: the calls it has received

vars == <<verbs, enabledPersons, enabledTenses, verbFilters, verbLimit,
          currentPrompt, configError, storedSettings, mounted, build, html,
          call, script, files, net, inputValue, hintedIndices, hintsUsed,
          dailyGoal, dailyProgress, dailyDateKey, today, timer, isInitialized,
          analyticsEnabled, apiKey, backend>>

\* the variables of the build script, and their values where no build runs
BuildVars == <<script, files, net>>

NoFiles == <<>>

BuildIdle ==
  /\ script = [pc |-> "idle"]
  /\ files = NoFiles
  /\ net = <<>>

\* the variables of a practice session and of the analytics module, and their
\* values where no session runs: those of the useState calls and of the
\* module's declarations
SessionVars ==
  <<inputValue, hintedIndices, hintsUsed, dailyGoal, dailyProgress,
    dailyDateKey, today, timer, isInitialized, analyticsEnabled, apiKey,
    backend>>

NoTimer == [pending |-> FALSE]

NoBackend == [initAll |-> 0, optedOut |-> FALSE, received |-> <<>>]

AnalyticsIdle ==
  /\ isInitialized = FALSE
  /\ analyticsEnabled = FALSE
  /\ apiKey = FALSE
  /\ backend = NoBackend

SessionIdle ==
  /\ inputValue = ""
  /\ hintedIndices = {}
  /\ hintsUsed = 0
  /\ dailyGoal = 50
  /\ dailyProgress = 0
  /\ dailyDateKey = 1
  /\ today = 1
  /\ timer = NoTimer
  /\ AnalyticsIdle

---------------------------------------------------------------------------
(* Bounds of the model *)

\* the user only ever enables the first NumPersons persons of PERSONS
NumPersons == 2
\* the user only ever enables the first NumTenses tenses of TENSES
NumTenses == 2
\* the longest dataset
MaxVerbs == 2

---------------------------------------------------------------------------
(* Program constants *)

PERSONS == <<"jo", "tu", "ell", "nosaltres", "vosaltres", "ells">>

TENSES == <<"present", "imperfect", "future", "conditional",
            "subjunctive_present", "subjunctive_imperfect", "imperative">>

\* TENSES of the earlier App.jsx
TENSES_Legacy == <<"present", "imperfect", "future", "conditional">>

VERB_LIMITS == <<100, 300, 500>>

VERB_FILTER_KEYS == {"regular", "irregular"}

Null == [null |-> TRUE]

Range(s) == {s[i] : i \in DOMAIN s}

Min(a, b) == IF a < b THEN a ELSE b

ModelPersons == {PERSONS[i] : i \in 1..Min(NumPersons, Len(PERSONS))}

ModelTenses == {TENSES[i] : i \in 1..Min(NumTenses, Len(TENSES))}

\* the index of x in the sequence s (x occurs in s)
IndexOf(s, x) == CHOOSE i \in DOMAIN s : s[i] = x


---------------------------------------------------------------------------
(* The dataset: verbs as the builds write them *)

\* a table as the 500-verb build stores it for "anar"; the imperfect row has
\* an empty cell and the later tenses are absent
TensesAnar ==
  [present   |-> [jo |-> "vaig", tu |-> "vas", ell |-> "va"],
   imperfect |-> [jo |-> "anava", tu |-> ""]]

TensesParlar ==
  [present   |-> [jo |-> "parlo", tu |-> "parles"],
   imperfect |-> [jo |-> "parlava", tu |-> "parlaves"]]

\* entries of verbs.json: the 500-verb build writes infinitive, regular, group,
\* rank and tenses; the 200-verb build writes no rank and, for a regular
\* verb, no tenses.  The same word on two lines of the frequency list is
\* written twice, with two ranks.
VerbPool ==
  { [infinitive |-> "anar", regular |-> FALSE, group |-> "ar", rank |-> 50,
     tenses |-> TensesAnar],
    [infinitive |-> "anar", regular |-> FALSE, group |-> "ar", rank |-> 350,
     tenses |-> TensesAnar],
    [infinitive |-> "parlar", regular |-> TRUE, group |-> "ar", rank |-> 150,
     tenses |-> TensesParlar],
    [infinitive |-> "cantar", tenses |-> [present |-> [jo |-> "canto"]]],
    [infinitive |-> "dormir", regular |-> TRUE, group |-> "ir"] }

\* the verbs a form is asked of: those of the datasets and a verb with
\* neither table nor group, stored with two present forms
ConjugationVerbs ==
  VerbPool \cup {[infinitive |-> "perdre", regular |-> TRUE,
                  present |-> [jo |-> "perdo", tu |-> "perds"]]}

SeqsUpTo(S, n) == UNION {[1..k -> S] : k \in 0..n}

Datasets == SeqsUpTo(VerbPool, MaxVerbs)

---------------------------------------------------------------------------
(* The prompt engine (App.jsx) *)

getConjugation(verb, tense, person) ==
  IF /\ "tenses" \in DOMAIN verb
     /\ tense \in DOMAIN verb.tenses
     /\ person \in DOMAIN verb.tenses[tense]
  THEN verb.tenses[tense][person]
  ELSE ""

\* String.prototype.endsWith
EndsWith(s, suffix) ==
  /\ Len(s) >= Len(suffix)
  /\ SubSeq(s, Len(s) - Len(suffix) + 1, Len(s)) = suffix

\* infinitive.slice(0, -1)
Stem_DropsOneLetter(infinitive) ==
  IF Len(infinitive) <= 1 THEN ""
  ELSE SubSeq(infinitive, 1, Len(infinitive) - 1)

\* infinitive.slice(0, -2)
Stem(infinitive) ==
  IF Len(infinitive) <= 2 THEN ""
  ELSE SubSeq(infinitive, 1, Len(infinitive) - 2)

\* { ... }[person] ?? ""
FormOf(forms, person) ==
  IF person \in DOMAIN forms THEN forms[person] ELSE ""

getVerbGroup(infinitive) ==
  IF EndsWith(infinitive, "ar") THEN "ar"
  ELSE IF EndsWith(infinitive, "ir") THEN "ir"
  ELSE IF EndsWith(infinitive, "er") \/ EndsWith(infinitive, "re") THEN "er"
  ELSE "ar"

regularPresent(infinitive, group, person) ==
  LET stem == Stem(infinitive)
  IN  IF group = "ar"
      THEN FormOf([jo |-> stem \o "o", tu |-> stem \o "es",
                   ell |-> stem \o "a", nosaltres |-> stem \o "em",
                   vosaltres |-> stem \o "eu", ells |-> stem \o "en"],
                  person)
      ELSE IF group = "ir"
      THEN FormOf([jo |-> stem \o "o", tu |-> stem \o "s",
                   ell |-> stem, nosaltres |-> stem \o "im",
                   vosaltres |-> stem \o "iu", ells |-> stem \o "en"],
                  person)
      ELSE FormOf([jo |-> stem \o "o", tu |-> stem \o "s",
                   ell |-> stem, nosaltres |-> stem \o "em",
                   vosaltres |-> stem \o "eu", ells |-> stem \o "en"],
                  person)

regularImperfect(infinitive, group, person) ==
  LET stem == Stem(infinitive)
  IN  IF group = "ar"
      THEN FormOf([jo |-> stem \o "ava", tu |-> stem \o "aves",
                   ell |-> stem \o "ava", nosaltres |-> stem \o "àvem",
                   vosaltres |-> stem \o "àveu", ells |-> stem \o "aven"],
                  person)
      ELSE FormOf([jo |-> stem \o "ia", tu |-> stem \o "ies",
                   ell |-> stem \o "ia", nosaltres |-> stem \o "íem",
                   vosaltres |-> stem \o "íeu", ells |-> stem \o "ien"],
                  person)

regularFuture(infinitive, person) ==
  FormOf([jo |-> infinitive \o "é", tu |-> infinitive \o "às",
          ell |-> infinitive \o "à", nosaltres |-> infinitive \o "em",
          vosaltres |-> infinitive \o "eu", ells |-> infinitive \o "an"],
         person)

regularConditional(infinitive, person) ==
  FormOf([jo |-> infinitive \o "ia", tu |-> infinitive \o "ies",
          ell |-> infinitive \o "ia", nosaltres |-> infinitive \o "íem",
          vosaltres |-> infinitive \o "íeu", ells |-> infinitive \o "ien"],
         person)

\* getConjugation of the earlier App.jsx: the table entry when it is there and
\* non-empty, the regular form otherwise
getConjugationLegacy(verb, tense, person) ==
  IF /\ "tenses" \in DOMAIN verb
     /\ tense \in DOMAIN verb.tenses
     /\ person \in DOMAIN verb.tenses[tense]
     /\ verb.tenses[tense][person] # ""
  THEN verb.tenses[tense][person]
  ELSE LET group == IF "group" \in DOMAIN verb THEN verb.group
                    ELSE getVerbGroup(verb.infinitive)
       IN  IF tense = "present"
           THEN IF "present" \in DOMAIN verb /\ person \in DOMAIN verb.present
                THEN verb.present[person]
                ELSE regularPresent(verb.infinitive, group, person)
           ELSE IF tense = "imperfect"
           THEN regularImperfect(verb.infinitive, group, person)
           ELSE IF tense = "future"
           THEN regularFuture(verb.infinitive, person)
           ELSE IF tense = "conditional"
           THEN regularConditional(verb.infinitive, person)
           ELSE ""

\* index is 0-based, as in Array.prototype.filter and findIndex
getVerbRank(verb, index) ==
  IF "rank" \in DOMAIN verb THEN verb.rank ELSE index + 1

\* verb.regular !== false
IsRegular(verb) == ~("regular" \in DOMAIN verb /\ verb.regular = FALSE)

VerbPasses(verb, index, vf, vl) ==
  /\ ~(IsRegular(verb) /\ ~vf.regular)
  /\ ~(~IsRegular(verb) /\ ~vf.irregular)
  /\ ~(getVerbRank(verb, index) > vl)

\* getFilteredVerbs without the rank limit
getFilteredVerbs_NoRankLimit(vs, vf, vl) ==
  SelectSeq(vs, LAMBDA verb :
                  /\ ~(IsRegular(verb) /\ ~vf.regular)
                  /\ ~(~IsRegular(verb) /\ ~vf.irregular))

RECURSIVE FilterFrom(_, _, _, _)
FilterFrom(vs, i, vf, vl) ==
  IF i > Len(vs) THEN <<>>
  ELSE (IF VerbPasses(vs[i], i - 1, vf, vl) THEN <<vs[i]>> ELSE <<>>)
       \o FilterFrom(vs, i + 1, vf, vl)

getFilteredVerbs(vs, vf, vl) == FilterFrom(vs, 1, vf, vl)

PromptKey(verb, person, tense) ==
  verb.infinitive \o "-" \o person \o "-" \o tense

MakePrompt(verb, person, tense) ==
  [verb |-> verb, person |-> person, tense |-> tense,
   key |-> PromptKey(verb, person, tense)]

EnabledList(all, enabled) == SelectSeq(all, LAMBDA x : enabled[x])

\* the prompts pushed for one verb and one tense, over the persons from k on
RECURSIVE PersonLoop(_, _, _, _, _)
PersonLoop(verb, tense, pl, k, lastKey) ==
  IF k > Len(pl) THEN <<>>
  ELSE LET person == pl[k]
           answer == getConjugation(verb, tense, person)
           key    == PromptKey(verb, person, tense)
           skip   == answer = "" \/ (lastKey # "" /\ key = lastKey)
       IN  (IF skip THEN <<>> ELSE <<MakePrompt(verb, person, tense)>>)
           \o PersonLoop(verb, tense, pl, k + 1, lastKey)

RECURSIVE TenseLoop(_, _, _, _, _)
TenseLoop(verb, tl, pl, j, lastKey) ==
  IF j > Len(tl) THEN <<>>
  ELSE PersonLoop(verb, tl[j], pl, 1, lastKey)
       \o TenseLoop(verb, tl, pl, j + 1, lastKey)

\* the loop over the verbs, walked from the last to the first
RECURSIVE VerbLoop_LastFirst(_, _, _, _, _)
VerbLoop_LastFirst(fv, tl, pl, i, lastKey) ==
  IF i > Len(fv) THEN <<>>
  ELSE VerbLoop_LastFirst(fv, tl, pl, i + 1, lastKey)
       \o TenseLoop(fv[i], tl, pl, 1, lastKey)

RECURSIVE VerbLoop(_, _, _, _, _)
VerbLoop(fv, tl, pl, i, lastKey) ==
  IF i > Len(fv) THEN <<>>
  ELSE TenseLoop(fv[i], tl, pl, 1, lastKey)
       \o VerbLoop(fv, tl, pl, i + 1, lastKey)

\* getAvailablePrompts that does not leave out the prompt keyed lastKey
getAvailablePrompts_KeepsLastKey(filteredVerbs, ep, et, lastKey) ==
  LET enabledPersonList == EnabledList(PERSONS, ep)
      enabledTenseList  == EnabledList(TENSES, et)
  IN  IF Len(enabledPersonList) = 0 \/ Len(enabledTenseList) = 0 THEN <<>>
      ELSE VerbLoop(filteredVerbs, enabledTenseList, enabledPersonList, 1, "")

getAvailablePrompts(filteredVerbs, ep, et, lastKey) ==
  LET enabledPersonList == EnabledList(PERSONS, ep)
      enabledTenseList  == EnabledList(TENSES, et)
  IN  IF Len(enabledPersonList) = 0 \/ Len(enabledTenseList) = 0 THEN <<>>
      ELSE VerbLoop(filteredVerbs, enabledTenseList, enabledPersonList, 1,
                    lastKey)

\* every value Math.floor(Math.random() * n) can take picks one element:
\* the set of the prompts a call can return
pickNextPrompt(vs, ep, et, vf, vl, lastKey) ==
  LET filteredVerbs == getFilteredVerbs(vs, vf, vl)
      prompts == getAvailablePrompts(filteredVerbs, ep, et, lastKey)
  IN  IF Len(filteredVerbs) = 0 THEN {Null}
      ELSE IF Len(prompts) = 0 THEN {Null}
      ELSE {prompts[n + 1] : n \in 0..(Len(prompts) - 1)}

\* hasAvailablePrompts that takes a verb passing the filters for a prompt
hasAvailablePrompts_VerbsOnly(vs, ep, et, vf, vl) ==
  Len(getFilteredVerbs(vs, vf, vl)) > 0

hasAvailablePrompts(vs, ep, et, vf, vl) ==
  LET filteredVerbs == getFilteredVerbs(vs, vf, vl)
  IN  IF Len(filteredVerbs) = 0 THEN FALSE
      ELSE Len(getAvailablePrompts(filteredVerbs, ep, et, "")) > 0

\* verbs.findIndex(...): the 0-based index of the first verb with that
\* infinitive, or -1
FindIndex(vs, infinitive) ==
  LET hits == {i \in DOMAIN vs : vs[i].infinitive = infinitive}
  IN  IF hits = {} THEN -1
      ELSE (CHOOSE i \in hits : \A j \in hits : i <= j) - 1

isPromptAllowed(vs, prompt, ep, et, vf, vl) ==
  IF prompt = Null THEN FALSE
  ELSE IF ~ep[prompt.person] THEN FALSE
  ELSE IF ~et[prompt.tense] THEN FALSE
  ELSE IF IsRegular(prompt.verb) /\ ~vf.regular THEN FALSE
  ELSE IF ~IsRegular(prompt.verb) /\ ~vf.irregular THEN FALSE
  ELSE LET verbIndex == FindIndex(vs, prompt.verb.infinitive)
           rank == getVerbRank(prompt.verb,
                               IF verbIndex = -1 THEN 0 ELSE verbIndex)
       IN  IF rank > vl THEN FALSE
           ELSE IF getConjugation(prompt.verb, prompt.tense, prompt.person) = ""
           THEN FALSE
           ELSE TRUE

---------------------------------------------------------------------------
(* Inputs of the engine *)

PersonStates ==
  {[p \in Range(PERSONS) |-> p \in S] : S \in SUBSET ModelPersons}

TenseStates ==
  {[t \in Range(TENSES) |-> t \in S] : S \in SUBSET ModelTenses}

VerbFilterStates == [VERB_FILTER_KEYS -> BOOLEAN]

\* the prompts that can be built from the verbs of a dataset
PromptsOf(vs) ==
  {MakePrompt(vs[i], p, t) : i \in DOMAIN vs, p \in ModelPersons,
                             t \in ModelTenses}

\* no last key, the key of a prompt of the dataset, or a key of no prompt
LastKeys(vs) == {""} \cup {q.key : q \in PromptsOf(vs)} \cup {"ser-jo-present"}

\* the defaults of the useState calls
DefaultPersons == [p \in Range(PERSONS) |-> TRUE]

DefaultTenses == [t \in Range(TENSES) |-> t = "present"]

DefaultVerbFilters == [regular |-> TRUE, irregular |-> TRUE]

DefaultVerbLimit == VERB_LIMITS[2]

NoCall == [op |-> "none"]

---------------------------------------------------------------------------
(* The engine's functions applied to every input of the bounded sets *)

InitEngine ==
  /\ verbs \in Datasets
  /\ enabledPersons \in PersonStates
  /\ enabledTenses \in TenseStates
  /\ verbFilters \in VerbFilterStates
  /\ verbLimit \in Range(VERB_LIMITS)
  /\ currentPrompt = Null
  /\ configError = FALSE
  /\ storedSettings = <<>>
  /\ mounted = FALSE
  /\ build = "current"
  /\ html = <<>>
  /\ call = NoCall
  /\ BuildIdle
  /\ SessionIdle

EngineFrame ==
  UNCHANGED <<verbs, enabledPersons, enabledTenses, verbFilters, verbLimit,
              currentPrompt, configError, storedSettings, mounted, build,
              html, BuildVars, SessionVars>>

CallPickNextPrompt ==
  /\ call = NoCall
  /\ \E lastKey \in LastKeys(verbs) :
       \E next \in pickNextPrompt(verbs, enabledPersons, enabledTenses,
                                  verbFilters, verbLimit, lastKey) :
         call' = [op |-> "pickNextPrompt", lastKey |-> lastKey, ret |-> next]
  /\ EngineFrame

CallGetAvailablePrompts ==
  /\ call = NoCall
  /\ call' = [op |-> "getAvailablePrompts",
              ret |-> getAvailablePrompts(
                        getFilteredVerbs(verbs, verbFilters, verbLimit),
                        enabledPersons, enabledTenses, "")]
  /\ EngineFrame

CallHasAvailablePrompts ==
  /\ call = NoCall
  /\ call' = [op |-> "hasAvailablePrompts",
              ret |-> hasAvailablePrompts(verbs, enabledPersons, enabledTenses,
                                          verbFilters, verbLimit)]
  /\ EngineFrame

CallIsPromptAllowed ==
  /\ call = NoCall
  /\ \E prompt \in PromptsOf(verbs) :
       call' = [op |-> "isPromptAllowed", prompt |-> prompt,
                ret |-> isPromptAllowed(verbs, prompt, enabledPersons,
                                        enabledTenses, verbFilters, verbLimit)]
  /\ EngineFrame

CallGetConjugation ==
  /\ call = NoCall
  /\ \E i \in DOMAIN verbs, tense \in Range(TENSES_Legacy),
        person \in Range(PERSONS) :
       call' = [op |-> "getConjugation", verb |-> verbs[i], tense |-> tense,
                person |-> person,
                ret |-> getConjugation(verbs[i], tense, person)]
  /\ EngineFrame

CallGetConjugationLegacy ==
  /\ call = NoCall
  /\ \E i \in DOMAIN verbs, tense \in Range(TENSES_Legacy),
        person \in Range(PERSONS) :
       call' = [op |-> "getConjugationLegacy", verb |-> verbs[i],
                tense |-> tense, person |-> person,
                ret |-> getConjugationLegacy(verbs[i], tense, person)]
  /\ EngineFrame

InitConjugation ==
  /\ verbs \in {<<verb>> : verb \in ConjugationVerbs}
  /\ enabledPersons = DefaultPersons
  /\ enabledTenses = DefaultTenses
  /\ verbFilters = DefaultVerbFilters
  /\ verbLimit = DefaultVerbLimit
  /\ currentPrompt = Null
  /\ configError = FALSE
  /\ storedSettings = <<>>
  /\ mounted = FALSE
  /\ build = "current"
  /\ html = <<>>
  /\ call = NoCall
  /\ BuildIdle
  /\ SessionIdle

NextConjugation ==
  \/ CallGetConjugation
  \/ CallGetConjugationLegacy

SpecConjugation == InitConjugation /\ [][NextConjugation]_vars

NextEngine ==
  \/ CallPickNextPrompt
  \/ CallGetAvailablePrompts
  \/ CallHasAvailablePrompts
  \/ CallIsPromptAllowed

SpecEngine == InitEngine /\ [][NextEngine]_vars

---------------------------------------------------------------------------
(* What the engine's contract says, stated without the engine's loops *)

\* verb i of the dataset passes the verb-type filter and the rank limit
VerbSelected(vs, i, vf, vl) ==
  /\ IF "regular" \in DOMAIN vs[i] /\ vs[i].regular = FALSE
     THEN vf.irregular ELSE vf.regular
  /\ (IF "rank" \in DOMAIN vs[i] THEN vs[i].rank ELSE i) <= vl

\* <<verb index, tense index, person index>> of the valid instances
ValidTriples(vs, ep, et, vf, vl) ==
  {x \in (DOMAIN vs) \X (DOMAIN TENSES) \X (DOMAIN PERSONS) :
     /\ VerbSelected(vs, x[1], vf, vl)
     /\ et[TENSES[x[2]]]
     /\ ep[PERSONS[x[3]]]
     /\ getConjugation(vs[x[1]], TENSES[x[2]], PERSONS[x[3]]) # ""}

TripleBefore(x, y) ==
  \/ x[1] < y[1]
  \/ x[1] = y[1] /\ x[2] < y[2]
  \/ x[1] = y[1] /\ x[2] = y[2] /\ x[3] < y[3]

\* the valid instances in verb order, then tense order, then person order
ValidList(vs, ep, et, vf, vl) ==
  LET T == ValidTriples(vs, ep, et, vf, vl)
      Pos(x) == Cardinality({y \in T : TripleBefore(y, x)}) + 1
  IN  [n \in 1..Cardinality(T) |->
         LET x == CHOOSE y \in T : Pos(y) = n
         IN  MakePrompt(vs[x[1]], PERSONS[x[3]], TENSES[x[2]])]

ValidInstances ==
  Range(ValidList(verbs, enabledPersons, enabledTenses, verbFilters, verbLimit))

\* C1: pickNextPrompt never returns an instance whose key is the supplied
\* lastKey, when the valid-instance set has more than one member.
C1_NeverRepeatsLastKey ==
  (/\ call.op = "pickNextPrompt"
   /\ Cardinality(ValidInstances) > 1
   /\ call.ret # Null)
  => call.ret.key # call.lastKey

\* the last key is the key of a valid instance, others are valid too, and a
\* prompt was returned
C1_Witness ==
  /\ call.op = "pickNextPrompt"
  /\ Cardinality(ValidInstances) > 1
  /\ \E q \in ValidInstances : q.key = call.lastKey
  /\ call.ret # Null

\* C2: pickNextPrompt returns null exactly when no valid instance is left once
\* the instance keyed lastKey is removed, and otherwise returns one of those
\* left.
C2_NullIffNothingLeft ==
  call.op = "pickNextPrompt" =>
    LET rest == {q \in ValidInstances : q.key # call.lastKey}
    IN  /\ (call.ret = Null) <=> (rest = {})
        /\ call.ret # Null => call.ret \in rest

\* the only valid instance is the one keyed lastKey, and null was returned
C2_Witness ==
  /\ call.op = "pickNextPrompt"
  /\ Cardinality(ValidInstances) = 1
  /\ \A q \in ValidInstances : q.key = call.lastKey
  /\ call.ret = Null

\* C3: hasAvailablePrompts is false exactly when getAvailablePrompts over
\* getFilteredVerbs, with no lastKey, is empty.
C3_HasIffListNonEmpty ==
  call.op = "hasAvailablePrompts" =>
    ((call.ret = FALSE) <=>
       (getAvailablePrompts(getFilteredVerbs(verbs, verbFilters, verbLimit),
                            enabledPersons, enabledTenses, "") = <<>>))

\* verbs pass the filters, yet no prompt is available and false was returned
C3_Witness ==
  /\ call.op = "hasAvailablePrompts"
  /\ call.ret = FALSE
  /\ Len(getFilteredVerbs(verbs, verbFilters, verbLimit)) > 0
  /\ \E p \in ModelPersons : enabledPersons[p]
  /\ \E t \in ModelTenses : enabledTenses[t]

\* C7: isPromptAllowed is true exactly when an instance with the prompt's key
\* is among the valid instances computed without the repeat exclusion.
C7_AllowedIffListed ==
  call.op = "isPromptAllowed" =>
    (call.ret <=>
       \E q \in Range(getAvailablePrompts(
                        getFilteredVerbs(verbs, verbFilters, verbLimit),
                        enabledPersons, enabledTenses, "")) :
         q.key = call.prompt.key)

HasTableEntry(verb, tense, person) ==
  /\ "tenses" \in DOMAIN verb
  /\ tense \in DOMAIN verb.tenses
  /\ person \in DOMAIN verb.tenses[tense]
  /\ verb.tenses[tense][person] # ""

\* the form of the regular-form generator, a stored present form first
GeneratedForm(verb, tense, person) ==
  getConjugationLegacy([k \in DOMAIN verb \ {"tenses"} |-> verb[k]],
                       tense, person)

TwoTier(c) ==
  /\ HasTableEntry(c.verb, c.tense, c.person)
       => c.ret = c.verb.tenses[c.tense][c.person]
  /\ ~HasTableEntry(c.verb, c.tense, c.person)
       => c.ret = GeneratedForm(c.verb, c.tense, c.person)
  /\ "tenses" \notin DOMAIN c.verb => c.ret # ""

\* C9: getConjugation returns the table entry when it is present and
\* non-empty and the regular-form generator's form otherwise, so a verb stored
\* without a table resolves a non-empty form in present, imperfect, future
\* and conditional for each of the six persons.
C9_TwoTierResolution ==
  call.op \in {"getConjugation", "getConjugationLegacy"} => TwoTier(call)

\* the earlier App.jsx alone resolves in two tiers
C9_LegacyTwoTier ==
  call.op = "getConjugationLegacy" => TwoTier(call)

\* a form has been asked of the current App.jsx for a verb stored without a
\* table
C9_Witness ==
  /\ call.op = "getConjugation"
  /\ "tenses" \notin DOMAIN call.verb

\* C8: getAvailablePrompts holds exactly the instances whose verb passes the
\* verb-type filter and the rank limit, whose tense and person are enabled and
\* whose form is non-empty, in verb, then tense, then person order.
C8_ListIsValidInstancesInOrder ==
  call.op = "getAvailablePrompts" =>
    call.ret = ValidList(verbs, enabledPersons, enabledTenses, verbFilters,
                         verbLimit)

\* a list over two verbs, from which a disabled person, a verb over the rank
\* limit or an empty form was left out
C8_Witness ==
  /\ call.op = "getAvailablePrompts"
  /\ Len(call.ret) >= 3
  /\ \E i, j \in DOMAIN call.ret : call.ret[i].verb # call.ret[j].verb
  /\ \E i, j \in DOMAIN call.ret : call.ret[i].tense # call.ret[j].tense
  /\ \E q \in PromptsOf(verbs) : q \notin Range(call.ret)

---------------------------------------------------------------------------
(* The answer of a prompt and the answer-completion effect *)

Char(s, i) == SubSeq(s, i, i)

UpperCase == "ABCDEFGHIJKLMNOPQRSTUVWXYZ"

LowerCase == "abcdefghijklmnopqrstuvwxyz"

\* String.prototype.toLowerCase
RECURSIVE toLowerCase(_)
toLowerCase(s) ==
  IF Len(s) = 0 THEN ""
  ELSE LET c == Char(s, 1)
           up == {i \in 1..Len(UpperCase) : Char(UpperCase, i) = c}
       IN  (IF up = {} THEN c ELSE Char(LowerCase, CHOOSE i \in up : TRUE))
           \o toLowerCase(SubSeq(s, 2, Len(s)))

\* expectedAnswer of the render
ExpectedOf(prompt) ==
  IF prompt = Null THEN ""
  ELSE getConjugation(prompt.verb, prompt.tense, prompt.person)

\* the test of the answer-completion effect
Complete(value, expected) ==
  expected # "" /\ toLowerCase(value) = toLowerCase(expected)

\* what the callback of setTimeout closes over: the values of the render
\* that ran the effect
Closure(ep, et, vf, vl, prompt, goal, hints) ==
  [pending |-> TRUE, enabledPersons |-> ep, enabledTenses |-> et,
   verbFilters |-> vf, verbLimit |-> vl, currentPrompt |-> prompt,
   dailyGoal |-> goal, hintsUsed |-> hints]

\* the answer-completion effect after a render: when one of its dependencies
\* changed, the cleanup clears the timeout and the effect sets another if the
\* input is the expected answer; otherwise the timeout stays as it is
CompletionEffect(changed, ep, et, vf, vl, prompt, value, goal, hints) ==
  IF ~changed THEN timer
  ELSE IF Complete(value, ExpectedOf(prompt))
  THEN Closure(ep, et, vf, vl, prompt, goal, hints)
  ELSE NoTimer

---------------------------------------------------------------------------
(* The App component: filter handlers and prompt effects *)

\* the re-renders followed after one event
MaxRenders == 3

\* Object.values(prev).filter(Boolean).length
EnabledCount(prev) == Cardinality({k \in DOMAIN prev : prev[k]})

\* what a setState updater returns, and the setConfigError call it makes
Updated(value, setConfigError) ==
  [value |-> value, setConfigError |-> setConfigError]

togglePerson(vs, prev, person, et, vf, vl) ==
  LET next == [prev EXCEPT ![person] = ~prev[person]]
  IN  IF prev[person] /\ EnabledCount(prev) = 1 THEN Updated(prev, "none")
      ELSE IF ~hasAvailablePrompts(vs, next, et, vf, vl)
      THEN Updated(prev, "true")
      ELSE Updated(next, "false")

toggleTense(vs, prev, tense, ep, vf, vl) ==
  LET next == [prev EXCEPT ![tense] = ~prev[tense]]
  IN  IF prev[tense] /\ EnabledCount(prev) = 1 THEN Updated(prev, "none")
      ELSE IF ~hasAvailablePrompts(vs, ep, next, vf, vl)
      THEN Updated(prev, "true")
      ELSE Updated(next, "false")

toggleVerbFilter(vs, prev, key, ep, et, vl) ==
  LET next == [prev EXCEPT ![key] = ~prev[key]]
  IN  IF prev[key] /\ EnabledCount(prev) = 1 THEN Updated(prev, "none")
      ELSE IF ~hasAvailablePrompts(vs, ep, et, next, vl)
      THEN Updated(prev, "true")
      ELSE Updated(next, "false")

\* configError after the setConfigError call of an updater
AfterSet(ce, setConfigError) ==
  IF setConfigError = "none" THEN ce ELSE setConfigError = "true"

Shown(prompt, ce) == [prompt |-> prompt, configError |-> ce]

\* The two prompt effects, run after a render in which the prompt or a filter
\* changed, and again after the render their own setCurrentPrompt causes: the
\* set of the <<prompt, configError>> pairs they can leave.
RECURSIVE PromptEffects(_, _, _, _, _, _, _, _)
PromptEffects(vs, prompt, ce, ep, et, vf, vl, renders) ==
  LET Again(next) ==
        IF renders = 0 THEN {Shown(next, FALSE)}
        ELSE PromptEffects(vs, next, FALSE, ep, et, vf, vl, renders - 1)
      Replace(lastKey, kept) ==
        UNION {IF next = Null THEN {Shown(kept, TRUE)} ELSE Again(next) :
                 next \in pickNextPrompt(vs, ep, et, vf, vl, lastKey)}
  IN  IF prompt = Null THEN Replace("", Null)
      ELSE IF ~isPromptAllowed(vs, prompt, ep, et, vf, vl)
      THEN Replace(prompt.key, prompt)
      ELSE {Shown(prompt, ce)}

\* JSON.stringify of the filter state into localStorage
Settings(ep, et, vf, vl) ==
  [enabledPersons |-> ep, enabledTenses |-> et, verbFilters |-> vf,
   verbLimit |-> vl]

\* { ...prev, ...parsed }
Merge(prev, parsed) ==
  [k \in DOMAIN prev \cup DOMAIN parsed |->
     IF k \in DOMAIN parsed THEN parsed[k] ELSE prev[k]]

\* the filter state the mount effect restores from localStorage
RestoreSettings(stored) ==
  IF stored = <<>>
  THEN Settings(DefaultPersons, DefaultTenses, DefaultVerbFilters,
                DefaultVerbLimit)
  ELSE LET parsed == stored[1]
       IN  Settings(
             IF "enabledPersons" \in DOMAIN parsed
             THEN Merge(DefaultPersons, parsed.enabledPersons)
             ELSE DefaultPersons,
             IF "enabledTenses" \in DOMAIN parsed
             THEN Merge(DefaultTenses, parsed.enabledTenses)
             ELSE DefaultTenses,
             IF "verbFilters" \in DOMAIN parsed
             THEN parsed.verbFilters ELSE DefaultVerbFilters,
             IF "verbLimit" \in DOMAIN parsed
                /\ parsed.verbLimit \in Range(VERB_LIMITS)
             THEN parsed.verbLimit ELSE DefaultVerbLimit)

---------------------------------------------------------------------------
(* The earlier App component (four tenses, no rank limit) *)

DefaultTensesLegacy == [t \in Range(TENSES_Legacy) |-> TRUE]

\* the retry limit of the earlier pickNextPrompt
RetryLimit == 10

\* togglePerson that lets the last enabled person be disabled
togglePersonLegacy_NoLastGuard(prev, person) ==
  [prev EXCEPT ![person] = ~prev[person]]

togglePersonLegacy(prev, person) ==
  IF prev[person] /\ EnabledCount(prev) = 1 THEN prev
  ELSE [prev EXCEPT ![person] = ~prev[person]]

toggleTenseLegacy(prev, tense) ==
  IF prev[tense] /\ EnabledCount(prev) = 1 THEN prev
  ELSE [prev EXCEPT ![tense] = ~prev[tense]]

toggleVerbFilterLegacy(prev, key) ==
  IF prev[key] /\ EnabledCount(prev) = 1 THEN prev
  ELSE [prev EXCEPT ![key] = ~prev[key]]

\* the while loop with a single draw: the first prompt drawn is kept
RetryRuns_SingleDraw(candidates, next, tries, lastKey) ==
  {[next |-> c, tries |-> 1] : c \in candidates}

\* the runs of the while loop, from the value of next after tries rounds:
\* what it leaves in next and the rounds it took; candidates are the prompts
\* one round can draw
RECURSIVE RetryRuns(_, _, _, _)
RetryRuns(candidates, next, tries, lastKey) ==
  IF next = Null \/ (lastKey # "" /\ next.key = lastKey /\ tries < RetryLimit)
  THEN UNION {RetryRuns(candidates, c, tries + 1, lastKey) : c \in candidates}
  ELSE {[next |-> next, tries |-> tries]}

\* the prompts the retry loop can leave in next
RetryLoop(candidates, next, tries, lastKey) ==
  {run.next : run \in RetryRuns(candidates, next, tries, lastKey)}

\* the runs of pickNextPrompt: the value returned and the rounds of the loop
pickNextPromptRuns(vs, ep, et, vf, lastKey) ==
  LET enabled == EnabledList(PERSONS, ep)
      enabledTenseList == EnabledList(TENSES_Legacy, et)
      filteredVerbs ==
        SelectSeq(vs, LAMBDA verb :
                        /\ ~(IsRegular(verb) /\ ~vf.regular)
                        /\ ~(~IsRegular(verb) /\ ~vf.irregular))
      candidates ==
        {MakePrompt(verb, person, tense) :
           verb \in Range(filteredVerbs), person \in Range(enabled),
           tense \in Range(enabledTenseList)}
  IN  IF Len(enabled) = 0 THEN {[next |-> Null, tries |-> 0]}
      ELSE IF Len(enabledTenseList) = 0 THEN {[next |-> Null, tries |-> 0]}
      ELSE IF Len(filteredVerbs) = 0 THEN {[next |-> Null, tries |-> 0]}
      ELSE RetryRuns(candidates, Null, 0, lastKey)

pickNextPromptLegacy(vs, ep, et, vf, lastKey) ==
  {run.next : run \in pickNextPromptRuns(vs, ep, et, vf, lastKey)}

isPromptAllowedLegacy(prompt, ep, et, vf) ==
  IF prompt = Null THEN FALSE
  ELSE IF ~ep[prompt.person] THEN FALSE
  ELSE IF ~et[prompt.tense] THEN FALSE
  ELSE IF IsRegular(prompt.verb) /\ ~vf.regular THEN FALSE
  ELSE IF ~IsRegular(prompt.verb) /\ ~vf.irregular THEN FALSE
  ELSE TRUE

\* the two prompt effects of the earlier component: the prompts they can leave
RECURSIVE PromptEffectsLegacy(_, _, _, _, _, _)
PromptEffectsLegacy(vs, prompt, ep, et, vf, renders) ==
  LET Again(next) ==
        IF renders = 0 \/ next = Null THEN {next}
        ELSE PromptEffectsLegacy(vs, next, ep, et, vf, renders - 1)
  IN  IF prompt = Null
      THEN UNION {Again(next) :
                    next \in pickNextPromptLegacy(vs, ep, et, vf, "")}
      ELSE IF ~isPromptAllowedLegacy(prompt, ep, et, vf)
      THEN UNION {Again(next) :
                    next \in pickNextPromptLegacy(vs, ep, et, vf, prompt.key)}
      ELSE {prompt}

\* the earlier mount effect replaces the stored objects, it does not merge
RestoreSettingsLegacy(stored) ==
  IF stored = <<>>
  THEN [enabledPersons |-> DefaultPersons, enabledTenses |-> DefaultTensesLegacy,
        verbFilters |-> DefaultVerbFilters]
  ELSE LET parsed == stored[1]
       IN  [enabledPersons |->
              IF "enabledPersons" \in DOMAIN parsed
              THEN parsed.enabledPersons ELSE DefaultPersons,
            enabledTenses |->
              IF "enabledTenses" \in DOMAIN parsed
              THEN parsed.enabledTenses ELSE DefaultTensesLegacy,
            verbFilters |->
              IF "verbFilters" \in DOMAIN parsed
              THEN parsed.verbFilters ELSE DefaultVerbFilters]

---------------------------------------------------------------------------
(* The App as a state machine: page loads, mount effects, user events *)

Restrict(f, S) == [k \in S |-> f[k]]

\* what an earlier session of the same component left in localStorage: nothing,
\* or the settings of a filter state it accepted
StoredAtStart(b, vs) ==
  {<<>>} \cup
  IF b = "current"
  THEN {<<Settings(ep, et, vf, vl)>> :
          <<ep, et, vf, vl>> \in
            {x \in PersonStates \X TenseStates \X VerbFilterStates
                     \X Range(VERB_LIMITS) :
               hasAvailablePrompts(vs, x[1], x[2], x[3], x[4])}}
  ELSE {<<[enabledPersons |-> x[1],
           enabledTenses |-> Restrict(x[2], Range(TENSES_Legacy)),
           verbFilters |-> x[3]]>> :
          x \in {y \in PersonStates \X TenseStates \X VerbFilterStates :
                   /\ EnabledCount(y[1]) > 0
                   /\ EnabledCount(y[2]) > 0
                   /\ EnabledCount(y[3]) > 0}}

Init ==
  /\ verbs \in Datasets
  /\ build \in {"current", "legacy"}
  /\ enabledPersons = DefaultPersons
  /\ enabledTenses =
       IF build = "current" THEN DefaultTenses ELSE DefaultTensesLegacy
  /\ verbFilters = DefaultVerbFilters
  /\ verbLimit = DefaultVerbLimit
  /\ currentPrompt = Null
  /\ configError = FALSE
  /\ storedSettings \in StoredAtStart(build, verbs)
  /\ mounted = FALSE
  /\ html = <<>>
  /\ call = NoCall
  /\ BuildIdle
  /\ SessionIdle

\* the persisted settings of a filter state, as each component writes them
Persisted(b, ep, et, vf, vl) ==
  IF b = "current" THEN <<Settings(ep, et, vf, vl)>>
  ELSE <<[enabledPersons |-> ep, enabledTenses |-> et, verbFilters |-> vf]>>

\* A render with the filter state <<ep, et, vf, vl>> and configError ce: when
\* a dependency of the prompt effects changed they run, and the settings
\* effect persists the filter state.  The second prompt effect clears the
\* input when it finds the displayed prompt not allowed, and the
\* answer-completion effect runs when one of its dependencies changed: the
\* rank limit is not one of them.
Render(ep, et, vf, vl, ce, changed) ==
  IF ~changed
  THEN /\ configError' = ce
       /\ UNCHANGED <<enabledPersons, enabledTenses, verbFilters, verbLimit,
                      currentPrompt, storedSettings, inputValue,
                      hintedIndices, timer>>
  ELSE /\ enabledPersons' = ep
       /\ enabledTenses' = et
       /\ verbFilters' = vf
       /\ verbLimit' = vl
       /\ storedSettings' = Persisted(build, ep, et, vf, vl)
       /\ IF build = "current"
          THEN \E e \in PromptEffects(verbs, currentPrompt, ce, ep, et, vf, vl,
                                      MaxRenders) :
                 LET cleared ==
                       /\ currentPrompt # Null
                       /\ ~isPromptAllowed(verbs, currentPrompt, ep, et, vf,
                                           vl)
                     value == IF cleared THEN "" ELSE inputValue
                 IN  /\ currentPrompt' = e.prompt
                     /\ configError' = e.configError
                     /\ inputValue' = value
                     /\ hintedIndices' = IF cleared THEN {} ELSE hintedIndices
                     /\ timer' =
                          CompletionEffect(
                            \/ ep # enabledPersons
                            \/ et # enabledTenses
                            \/ vf # verbFilters
                            \/ e.prompt # currentPrompt
                            \/ value # inputValue,
                            ep, et, vf, vl, e.prompt, value, dailyGoal,
                            hintsUsed)
          ELSE /\ currentPrompt' \in PromptEffectsLegacy(verbs, currentPrompt,
                                                         ep, et, vf, MaxRenders)
               /\ configError' = ce
               /\ UNCHANGED <<inputValue, hintedIndices, timer>>

\* what a filter handler and its render leave alone; the trackEvent calls of
\* the handlers reach no backend in a session without the key
SettingsFrame ==
  UNCHANGED <<verbs, mounted, build, html, BuildVars, hintsUsed, dailyGoal,
              dailyProgress, dailyDateKey, today, isInitialized,
              analyticsEnabled, apiKey, backend>>

\* the first render and its effects: a prompt is picked under the default
\* filters, the stored settings are restored, the prompt is checked again
Mount ==
  /\ ~mounted
  /\ mounted' = TRUE
  /\ call' = [op |-> "mount"]
  /\ IF build = "current"
     THEN LET r == RestoreSettings(storedSettings)
          IN  \E first \in PromptEffects(verbs, Null, configError,
                             enabledPersons, enabledTenses, verbFilters,
                             verbLimit, MaxRenders) :
                \E last \in PromptEffects(verbs, first.prompt,
                              first.configError, r.enabledPersons,
                              r.enabledTenses, r.verbFilters, r.verbLimit,
                              MaxRenders) :
                  /\ enabledPersons' = r.enabledPersons
                  /\ enabledTenses' = r.enabledTenses
                  /\ verbFilters' = r.verbFilters
                  /\ verbLimit' = r.verbLimit
                  /\ currentPrompt' = last.prompt
                  /\ configError' = last.configError
                  /\ storedSettings' =
                       Persisted(build, r.enabledPersons, r.enabledTenses,
                                 r.verbFilters, r.verbLimit)
     ELSE LET r == RestoreSettingsLegacy(storedSettings)
          IN  \E first \in PromptEffectsLegacy(verbs, Null, enabledPersons,
                             enabledTenses, verbFilters, MaxRenders) :
                /\ currentPrompt' \in
                     PromptEffectsLegacy(verbs, first, r.enabledPersons,
                                         r.enabledTenses, r.verbFilters,
                                         MaxRenders)
                /\ enabledPersons' = r.enabledPersons
                /\ enabledTenses' = r.enabledTenses
                /\ verbFilters' = r.verbFilters
                /\ storedSettings' =
                     Persisted(build, r.enabledPersons, r.enabledTenses,
                               r.verbFilters, verbLimit)
                /\ UNCHANGED <<verbLimit, configError>>
  /\ UNCHANGED <<verbs, build, html, BuildVars, SessionVars>>

\* the page is loaded again: component state is lost, localStorage is kept
Reload ==
  /\ mounted
  /\ mounted' = FALSE
  /\ enabledPersons' = DefaultPersons
  /\ enabledTenses' =
       IF build = "current" THEN DefaultTenses ELSE DefaultTensesLegacy
  /\ verbFilters' = DefaultVerbFilters
  /\ verbLimit' = DefaultVerbLimit
  /\ currentPrompt' = Null
  /\ configError' = FALSE
  /\ call' = [op |-> "reload"]
  /\ UNCHANGED <<verbs, storedSettings, build, html, BuildVars, SessionVars>>

TogglePerson(person) ==
  /\ mounted /\ build = "current"
  /\ LET u == togglePerson(verbs, enabledPersons, person, enabledTenses,
                           verbFilters, verbLimit)
     IN  Render(u.value, enabledTenses, verbFilters, verbLimit,
                AfterSet(configError, u.setConfigError),
                u.value # enabledPersons)
  /\ call' = [op |-> "togglePerson", arg |-> person]
  /\ SettingsFrame

ToggleTense(tense) ==
  /\ mounted /\ build = "current"
  /\ LET u == toggleTense(verbs, enabledTenses, tense, enabledPersons,
                          verbFilters, verbLimit)
     IN  Render(enabledPersons, u.value, verbFilters, verbLimit,
                AfterSet(configError, u.setConfigError),
                u.value # enabledTenses)
  /\ call' = [op |-> "toggleTense", arg |-> tense]
  /\ SettingsFrame

ToggleVerbFilter(key) ==
  /\ mounted /\ build = "current"
  /\ LET u == toggleVerbFilter(verbs, verbFilters, key, enabledPersons,
                               enabledTenses, verbLimit)
     IN  Render(enabledPersons, enabledTenses, u.value, verbLimit,
                AfterSet(configError, u.setConfigError),
                u.value # verbFilters)
  /\ call' = [op |-> "toggleVerbFilter", arg |-> key]
  /\ SettingsFrame

HandleVerbLimitChange(limit) ==
  /\ mounted /\ build = "current"
  /\ Render(enabledPersons, enabledTenses, verbFilters, limit, configError,
            limit # verbLimit)
  /\ call' = [op |-> "handleVerbLimitChange", arg |-> limit]
  /\ SettingsFrame

TogglePersonLegacy(person) ==
  /\ mounted /\ build = "legacy"
  /\ LET next == togglePersonLegacy(enabledPersons, person)
     IN  Render(next, enabledTenses, verbFilters, verbLimit, configError,
                next # enabledPersons)
  /\ call' = [op |-> "togglePerson", arg |-> person]
  /\ SettingsFrame

ToggleTenseLegacy(tense) ==
  /\ mounted /\ build = "legacy"
  /\ LET next == toggleTenseLegacy(enabledTenses, tense)
     IN  Render(enabledPersons, next, verbFilters, verbLimit, configError,
                next # enabledTenses)
  /\ call' = [op |-> "toggleTense", arg |-> tense]
  /\ SettingsFrame

ToggleVerbFilterLegacy(key) ==
  /\ mounted /\ build = "legacy"
  /\ LET next == toggleVerbFilterLegacy(verbFilters, key)
     IN  Render(enabledPersons, enabledTenses, next, verbLimit, configError,
                next # verbFilters)
  /\ call' = [op |-> "toggleVerbFilter", arg |-> key]
  /\ SettingsFrame

Next ==
  \/ Mount
  \/ Reload
  \/ \E person \in ModelPersons : TogglePerson(person)
  \/ \E tense \in ModelTenses : ToggleTense(tense)
  \/ \E key \in VERB_FILTER_KEYS : ToggleVerbFilter(key)
  \/ \E limit \in Range(VERB_LIMITS) : HandleVerbLimitChange(limit)
  \/ \E person \in ModelPersons : TogglePersonLegacy(person)
  \/ \E tense \in ModelTenses : ToggleTenseLegacy(tense)
  \/ \E key \in VERB_FILTER_KEYS : ToggleVerbFilterLegacy(key)

Spec == Init /\ [][Next]_vars

---------------------------------------------------------------------------
(* Claims about the filter handlers *)

Flip(f, k) == [f EXCEPT ![k] = ~f[k]]

HasAny(ep, et, vf, vl) == ValidTriples(verbs, ep, et, vf, vl) # {}

\* the step is a toggle of the current component whose resulting filter state
\* has no valid instance
ToggleToNoInstance ==
  /\ build = "current"
  /\ \/ /\ call'.op = "togglePerson"
        /\ ~HasAny(Flip(enabledPersons, call'.arg), enabledTenses,
                   verbFilters, verbLimit)
     \/ /\ call'.op = "toggleTense"
        /\ ~HasAny(enabledPersons, Flip(enabledTenses, call'.arg),
                   verbFilters, verbLimit)
     \/ /\ call'.op = "toggleVerbFilter"
        /\ ~HasAny(enabledPersons, enabledTenses,
                   Flip(verbFilters, call'.arg), verbLimit)

\* C4: a toggle whose resulting filter state would have no valid instance is
\* rejected: persons, tenses and verb types are unchanged and the
\* configuration-error state is set.
C4_RejectedToggleSetsConfigError ==
  [][ToggleToNoInstance =>
       /\ UNCHANGED <<enabledPersons, enabledTenses, verbFilters>>
       /\ configError' = TRUE]_vars

\* C5: after any sequence of toggles the enabled-person set and the
\* enabled-tense set are non-empty and at least one verb type is on.
C5_FilterSetsStayNonEmpty ==
  /\ EnabledCount(enabledPersons) > 0
  /\ EnabledCount(enabledTenses) > 0
  /\ EnabledCount(verbFilters) > 0

\* the last event was a toggle of the only enabled member of its set, in each
\* component
C5_Witness ==
  \/ /\ call.op = "togglePerson"
     /\ enabledPersons[call.arg] /\ EnabledCount(enabledPersons) = 1
  \/ /\ call.op = "toggleTense"
     /\ enabledTenses[call.arg] /\ EnabledCount(enabledTenses) = 1
  \/ /\ call.op = "toggleVerbFilter"
     /\ verbFilters[call.arg] /\ EnabledCount(verbFilters) = 1

\* the step is one of the filter-changing operations of the current component
FilterOperation ==
  /\ build = "current"
  /\ call'.op \in {"togglePerson", "toggleTense", "toggleVerbFilter",
                   "handleVerbLimitChange", "mount"}

\* C6: no filter-changing operation is applied when it would leave zero valid
\* combinations: from a state with a valid instance, the state after a toggle,
\* a rank-limit change or the restoring of persisted settings has one too.
C6_FilterOperationsKeepAnInstance ==
  [][(FilterOperation
      /\ HasAny(enabledPersons, enabledTenses, verbFilters, verbLimit))
     => HasAny(enabledPersons', enabledTenses', verbFilters', verbLimit')]_vars


---------------------------------------------------------------------------
(* The conjugation page parser of the build script (build-verbs.mjs) *)

PERSON_LABELS == <<"jo", "tu", "ell", "nosaltres", "vosaltres", "ells">>

TENSE_LABELS == <<"present", "imperfect", "future", "conditional">>

StartsWith(s, prefix) ==
  Len(s) >= Len(prefix) /\ SubSeq(s, 1, Len(prefix)) = prefix

\* String.prototype.trim, over blanks
RECURSIVE TrimStart(_)
TrimStart(s) ==
  IF Len(s) > 0 /\ Char(s, 1) = " " THEN TrimStart(SubSeq(s, 2, Len(s)))
  ELSE s

RECURSIVE TrimEnd(_)
TrimEnd(s) ==
  IF Len(s) > 0 /\ Char(s, Len(s)) = " "
  THEN TrimEnd(SubSeq(s, 1, Len(s) - 1))
  ELSE s

Trim(s) == TrimEnd(TrimStart(s))

\* value.replace(/\s+/g, " "): a run of blanks becomes one blank
RECURSIVE CollapseBlanks(_, _)
CollapseBlanks(s, i) ==
  IF i > Len(s) THEN ""
  ELSE IF Char(s, i) = " " /\ i > 1 /\ Char(s, i - 1) = " "
  THEN CollapseBlanks(s, i + 1)
  ELSE Char(s, i) \o CollapseBlanks(s, i + 1)

normalizeText(value) == Trim(CollapseBlanks(value, 1))

\* pronoun.replace(/[()]/g, "")
RECURSIVE RemoveParens(_, _)
RemoveParens(s, i) ==
  IF i > Len(s) THEN ""
  ELSE IF Char(s, i) \in {"(", ")"} THEN RemoveParens(s, i + 1)
  ELSE Char(s, i) \o RemoveParens(s, i + 1)

\* valueRaw.split(",")[0]
RECURSIVE BeforeComma(_, _)
BeforeComma(s, i) ==
  IF i > Len(s) \/ Char(s, i) = "," THEN ""
  ELSE Char(s, i) \o BeforeComma(s, i + 1)

\* value.replace(/\(.*?\)/g, ""): every "(" up to the nearest ")" goes
RECURSIVE RemoveGroups(_, _)
RemoveGroups(s, i) ==
  IF i > Len(s) THEN ""
  ELSE LET closing == {j \in (i + 1)..Len(s) : Char(s, j) = ")"}
       IN  IF Char(s, i) = "(" /\ closing # {}
           THEN RemoveGroups(s, (CHOOSE j \in closing :
                                   \A k \in closing : j <= k) + 1)
           ELSE Char(s, i) \o RemoveGroups(s, i + 1)

PronounKey(pronoun) ==
  IF StartsWith(pronoun, "jo") THEN "jo"
  ELSE IF StartsWith(pronoun, "tu") THEN "tu"
  ELSE IF StartsWith(pronoun, "ell, ella") THEN "ell"
  ELSE IF StartsWith(pronoun, "vostè") THEN "ell"
  ELSE IF StartsWith(pronoun, "nosaltres") THEN "nosaltres"
  ELSE IF StartsWith(pronoun, "vosaltres") THEN "vosaltres"
  ELSE IF StartsWith(pronoun, "ells, elles") THEN "ells"
  ELSE IF StartsWith(pronoun, "vostès") THEN "ells"
  ELSE ""

\* forms[key] = cleaned
Put(forms, key, value) ==
  [k \in DOMAIN forms \cup {key} |-> IF k = key THEN value ELSE forms[k]]

\* a table is the sequence of the rows the row pattern finds in it, each the
\* text of its th and of its td with the tags stripped
RECURSIVE RowLoop(_, _, _)
RowLoop(rows, i, forms) ==
  IF i > Len(rows) THEN forms
  ELSE LET pronoun  == RemoveParens(normalizeText(rows[i].th), 1)
           valueRaw == normalizeText(rows[i].td)
           key      == PronounKey(pronoun)
           cleaned  == Trim(RemoveGroups(BeforeComma(valueRaw, 1), 1))
       IN  IF pronoun = "" \/ valueRaw = "" THEN RowLoop(rows, i + 1, forms)
           ELSE IF key = "" THEN RowLoop(rows, i + 1, forms)
           ELSE RowLoop(rows, i + 1, Put(forms, key, cleaned))

parseTable(tableHtml) == RowLoop(tableHtml, 1, <<>>)

\* the tenses of the page, in the order of the tenses object
PAGE_TENSES ==
  <<"present", "imperfect", "future", "conditional", "subjunctive_present",
    "subjunctive_imperfect", "imperative">>

\* extractTableById and extractFirstTableAfter: the table under the heading
\* of the tense, "" when the page has no such heading
ExtractTable(page, tense) ==
  IF tense \in DOMAIN page THEN page[tense] ELSE <<>>

\* requiredByTense with the four tenses of TENSE_LABELS alone
requiredByTense_IndicativeOnly == TENSE_LABELS

requiredByTense ==
  <<"present", "imperfect", "future", "conditional", "subjunctive_present",
    "subjunctive_imperfect">>

MissingMessage(person, infinitive, tense) ==
  "Missing " \o person \o " for " \o infinitive \o " (" \o tense \o ")"

\* the test of a cell that takes an empty form for a form
Falsy_MissingKeyOnly(forms, person) == person \notin DOMAIN forms

\* !tenses[tense][person]
Falsy(forms, person) == person \notin DOMAIN forms \/ forms[person] = ""

\* the loop over requiredByTense and its persons: the message of the first
\* throw, "" when the loop ends
RECURSIVE RequiredLoop(_, _, _, _)
RequiredLoop(tenses, infinitive, i, j) ==
  IF i > Len(requiredByTense) THEN ""
  ELSE IF j > Len(PERSON_LABELS)
  THEN RequiredLoop(tenses, infinitive, i + 1, 1)
  ELSE IF Falsy(tenses[requiredByTense[i]], PERSON_LABELS[j])
  THEN MissingMessage(PERSON_LABELS[j], infinitive, requiredByTense[i])
  ELSE RequiredLoop(tenses, infinitive, i, j + 1)

\* the returned table, or the thrown error
parseConjugationsFromHtml(page, infinitive) ==
  LET tenses ==
        [present     |-> parseTable(ExtractTable(page, "present")),
         imperfect   |-> parseTable(ExtractTable(page, "imperfect")),
         future      |-> parseTable(ExtractTable(page, "future")),
         conditional |-> parseTable(ExtractTable(page, "conditional")),
         subjunctive_present |->
           parseTable(ExtractTable(page, "subjunctive_present")),
         subjunctive_imperfect |->
           parseTable(ExtractTable(page, "subjunctive_imperfect")),
         imperative  |-> parseTable(ExtractTable(page, "imperative"))]
      thrown == RequiredLoop(tenses, infinitive, 1, 1)
  IN  IF thrown # "" THEN [error |-> thrown] ELSE [tenses |-> tenses]

---------------------------------------------------------------------------
(* The parser applied to pages of the conjugation source *)

\* the rows of a table of the source, one per person
SourceRows ==
  << [th |-> "jo", td |-> "vaig"],
     [th |-> "tu", td |-> "vas"],
     [th |-> "ell, ella", td |-> "va"],
     [th |-> "nosaltres", td |-> "anem"],
     [th |-> "vosaltres", td |-> "aneu"],
     [th |-> "ells, elles", td |-> "van"] >>

SourcePage == [t \in Range(PAGE_TENSES) |-> SourceRows]

\* rows that differ from the source's: a th in parentheses, a td with a
\* second form, a td that is a note alone, a th of no person, a blank th, a
\* blank td, a td with a note before the form
RowPool ==
  { [th |-> "(jo)", td |-> "vaig,  vàreig"],
    [th |-> "vostè", td |-> "(ant.)"],
    [th |-> "ella", td |-> "va"],
    [th |-> " ", td |-> "va"],
    [th |-> "tu", td |-> " "],
    [th |-> "tu", td |-> "(ant.) vas" ] }

\* the tenses whose tables differ from the source's: the first and the last
\* required tense and the imperative
EditedTenses == {"present", "subjunctive_imperfect", "imperative"}

\* one difference from the page of the source: no difference, a table that is
\* not there, or another row in the place of a row
Edits ==
  {[kind |-> "none"]}
  \cup {[kind |-> "drop", tense |-> t] : t \in EditedTenses}
  \cup {[kind |-> "row", tense |-> t, row |-> r, with |-> w] :
          t \in EditedTenses, r \in DOMAIN SourceRows, w \in RowPool}

ApplyEdit(page, e) ==
  IF e.kind = "none" \/ e.tense \notin DOMAIN page THEN page
  ELSE IF e.kind = "drop"
  THEN [t \in DOMAIN page \ {e.tense} |-> page[t]]
  ELSE [page EXCEPT ![e.tense][e.row] = e.with]

Pages == {ApplyEdit(ApplyEdit(SourcePage, e1), e2) : e1, e2 \in Edits}

Infinitives == {"anar", "ser"}

InitParser ==
  /\ html \in Pages
  /\ verbs = <<>>
  /\ enabledPersons = DefaultPersons
  /\ enabledTenses = DefaultTenses
  /\ verbFilters = DefaultVerbFilters
  /\ verbLimit = DefaultVerbLimit
  /\ currentPrompt = Null
  /\ configError = FALSE
  /\ storedSettings = <<>>
  /\ mounted = FALSE
  /\ build = "current"
  /\ call = NoCall
  /\ BuildIdle
  /\ SessionIdle

CallParseConjugationsFromHtml ==
  /\ call = NoCall
  /\ \E infinitive \in Infinitives :
       call' = [op |-> "parseConjugationsFromHtml", infinitive |-> infinitive,
                ret |-> parseConjugationsFromHtml(html, infinitive)]
  /\ EngineFrame

NextParser == CallParseConjugationsFromHtml

SpecParser == InitParser /\ [][NextParser]_vars

\* the forms a table of the page holds for its persons, found without the
\* parser's loop: the form of a person is the cleaned td of the last row
\* whose th and td are not blank and whose th names the person
\* what a row gives: the person its th names ("" for none, and for a row
\* with a blank th or td) and the cleaned form of its td
RowReading(row) ==
  LET th == normalizeText(row.th)
      td == normalizeText(row.td)
  IN  [person |-> IF th = "" \/ td = "" THEN ""
                  ELSE PronounKey(RemoveParens(th, 1)),
       form   |-> Trim(RemoveGroups(BeforeComma(td, 1), 1))]

RECURSIVE Readings(_, _)
Readings(rows, i) ==
  IF i > Len(rows) THEN <<>>
  ELSE <<RowReading(rows[i])>> \o Readings(rows, i + 1)

\* the persons of a table of the page that have no form: no row names the
\* person, or the last row that does has an empty form
MissingPersons(page, tense) ==
  LET r == Readings(ExtractTable(page, tense), 1)
  IN  {p \in Range(PERSON_LABELS) :
         \A i \in DOMAIN r :
           r[i].person = p =>
             \/ \E k \in DOMAIN r : k > i /\ r[k].person = p
             \/ r[i].form = ""}

RequiredTenses ==
  {"present", "imperfect", "future", "conditional", "subjunctive_present",
   "subjunctive_imperfect"}

\* the cells of the required tenses that hold no form
MissingRequired(page) ==
  UNION {{<<t, p>> : p \in MissingPersons(page, t)} : t \in RequiredTenses}

\* C10: parseConjugationsFromHtml either returns a table with a non-empty
\* form for each of the six persons in each of the six required tenses, or
\* fails with an error naming the infinitive, the tense and the person of a
\* missing cell; it fails only when a required cell is missing, whatever the
\* imperative holds.
C10_CompleteOrNamedMissingCell ==
  call.op = "parseConjugationsFromHtml" =>
    LET missing == MissingRequired(html)
    IN  /\ "tenses" \in DOMAIN call.ret =>
             \A t \in RequiredTenses, p \in Range(PERSON_LABELS) :
               /\ p \in DOMAIN call.ret.tenses[t]
               /\ call.ret.tenses[t][p] # ""
        /\ "error" \in DOMAIN call.ret =>
             \E c \in missing :
               call.ret.error = MissingMessage(c[2], call.infinitive, c[1])
        /\ missing = {} => "tenses" \in DOMAIN call.ret

\* a page with a missing cell in a required tense and a missing cell in the
\* imperative has been refused
C10_Witness ==
  /\ call.op = "parseConjugationsFromHtml"
  /\ "error" \in DOMAIN call.ret
  /\ MissingRequired(html) # {}
  /\ MissingPersons(html, "imperative") # {}

\* a page whose only missing cells are in the imperative has been parsed
C10_ImperativeExempt ==
  /\ call.op = "parseConjugationsFromHtml"
  /\ "tenses" \in DOMAIN call.ret
  /\ MissingPersons(html, "imperative") # {}


---------------------------------------------------------------------------
(* parseTable applied to tables of the conjugation source *)

MaxRows == 2

\* rows of a table: the persons' rows of the source, rows of the formal
\* register alone, values with a second form, with a note before or after
\* the form, with a comma inside the note, a note alone, a label of no
\* person, a blank label and a blank value
TableRows ==
  { [th |-> "jo", td |-> "vaig,  vàreig"],
    [th |-> "(tu)", td |-> " vas "],
    [th |-> "ell, ella", td |-> "va"],
    [th |-> "vostè", td |-> "(ant.) va"],
    [th |-> "ells, elles", td |-> "van"],
    [th |-> "vostès", td |-> "van (col.)"],
    [th |-> "nosaltres", td |-> "anem (ant., lit.)"],
    [th |-> "vosaltres", td |-> "(ant.)"],
    [th |-> "ella", td |-> "va"],
    [th |-> " ", td |-> "va"],
    [th |-> "tu", td |-> " "] }

Tables == SeqsUpTo(TableRows, MaxRows)

InitTable ==
  /\ html \in Tables
  /\ verbs = <<>>
  /\ enabledPersons = DefaultPersons
  /\ enabledTenses = DefaultTenses
  /\ verbFilters = DefaultVerbFilters
  /\ verbLimit = DefaultVerbLimit
  /\ currentPrompt = Null
  /\ configError = FALSE
  /\ storedSettings = <<>>
  /\ mounted = FALSE
  /\ build = "current"
  /\ call = NoCall
  /\ BuildIdle
  /\ SessionIdle

CallParseTable ==
  /\ call = NoCall
  /\ call' = [op |-> "parseTable", ret |-> parseTable(html)]
  /\ EngineFrame

NextTable == CallParseTable

SpecTable == InitTable /\ [][NextTable]_vars

\* the label of a row as the parser reads it, and the row's value
RowLabel(row) == RemoveParens(normalizeText(row.th), 1)

RowValue(row) == normalizeText(row.td)

\* the person a label denotes, "" for none: the formal labels denote the
\* person of their informal counterpart
Denotes(label) ==
  IF StartsWith(label, "vostès") \/ StartsWith(label, "ells, elles")
  THEN "ells"
  ELSE IF StartsWith(label, "vostè") \/ StartsWith(label, "ell, ella")
  THEN "ell"
  ELSE IF StartsWith(label, "nosaltres") THEN "nosaltres"
  ELSE IF StartsWith(label, "vosaltres") THEN "vosaltres"
  ELSE IF StartsWith(label, "jo") THEN "jo"
  ELSE IF StartsWith(label, "tu") THEN "tu"
  ELSE ""

\* the rows of a table that have a label and a value
Filled(rows) ==
  {i \in DOMAIN rows : RowLabel(rows[i]) # "" /\ RowValue(rows[i]) # ""}

\* C11: a row whose label begins with "vostè" is stored under ell, a row
\* whose label begins with "vostès" under ells, and no row is stored under a
\* person other than the one its label denotes: the persons of the parsed
\* table are the persons the labels of its filled rows denote.
C11_FormalLabelsCollapse ==
  call.op = "parseTable" =>
    DOMAIN call.ret =
      {Denotes(RowLabel(html[i])) : i \in Filled(html)} \ {""}

\* a table with a row labelled "vostès" has been parsed
C11_Witness ==
  /\ call.op = "parseTable"
  /\ \E i \in Filled(html) : StartsWith(RowLabel(html[i]), "vostès")

\* the formal singular label alone is stored under ell
C11_FormalSingular ==
  call.op = "parseTable" =>
    \A i \in Filled(html) :
      (StartsWith(RowLabel(html[i]), "vostè")
         /\ ~StartsWith(RowLabel(html[i]), "vostès"))
        => "ell" \in DOMAIN call.ret

HasChar(s, c) == \E i \in 1..Len(s) : Char(s, i) = c

\* s holds a note in parentheses, whole or cut short
HasNote(s) == HasChar(s, "(") \/ HasChar(s, ")")

\* s holds a note with both its parentheses
HasWholeNote(s) ==
  \E i \in 1..Len(s) : \E j \in (i + 1)..Len(s) :
    Char(s, i) = "(" /\ Char(s, j) = ")"

\* s without its blanks
RECURSIVE Letters(_, _)
Letters(s, i) ==
  IF i > Len(s) THEN ""
  ELSE IF Char(s, i) = " " THEN Letters(s, i + 1)
  ELSE Char(s, i) \o Letters(s, i + 1)

\* the forms stored by parseTable have no comma, no blank at either end and
\* (with WholeNotesOnly) no note with both its parentheses or (without) no
\* note at all; a cell with neither comma nor parenthesis is stored as it
\* is, trimmed
Cleaned(wholeNotesOnly) ==
  /\ \A p \in DOMAIN call.ret :
       LET form == call.ret[p]
       IN  /\ ~HasChar(form, ",")
           /\ IF wholeNotesOnly THEN ~HasWholeNote(form) ELSE ~HasNote(form)
           /\ form = "" \/ (Char(form, 1) # " " /\ Char(form, Len(form)) # " ")
  /\ \A i \in Filled(html) :
       LET value == RowValue(html[i])
           person == PronounKey(RowLabel(html[i]))
       IN  (/\ person # ""
            /\ ~HasChar(value, ",")
            /\ ~HasNote(value)
            /\ \A k \in Filled(html) :
                 k > i => PronounKey(RowLabel(html[k])) # person)
             => call.ret[person] = value

\* C12: every stored form is the cell text before its first comma with the
\* parenthesised notes stripped: it has no comma, no parenthesised note and
\* no blank at either end.
C12_StoredFormsAreCleaned ==
  call.op = "parseTable" => Cleaned(FALSE)

\* what the parser does achieve: no comma, no blank at either end and no note
\* with both its parentheses
C12_NoWholeNote ==
  call.op = "parseTable" => Cleaned(TRUE)

\* a cell with a second form after a comma and a cell with a note have been
\* stored
C12_Witness ==
  /\ call.op = "parseTable"
  /\ \E i, k \in Filled(html) :
       /\ HasChar(RowValue(html[i]), ",")
       /\ HasWholeNote(RowValue(html[k]))
       /\ PronounKey(RowLabel(html[i])) \in DOMAIN call.ret
       /\ PronounKey(RowLabel(html[k])) \in DOMAIN call.ret

---------------------------------------------------------------------------
(* The dictionary parser of the build script *)

\* the App holds nothing while the build script runs
AppIdle ==
  /\ verbs = <<>>
  /\ enabledPersons = DefaultPersons
  /\ enabledTenses = DefaultTenses
  /\ verbFilters = DefaultVerbFilters
  /\ verbLimit = DefaultVerbLimit
  /\ currentPrompt = Null
  /\ configError = FALSE
  /\ storedSettings = <<>>
  /\ mounted = FALSE

\* value.replace(/<[^>]+>/g, ""): "<", one character or more that is not
\* ">", and ">" go
RECURSIVE stripTags(_)
stripTags(value) ==
  IF Len(value) = 0 THEN ""
  ELSE LET closing == {j \in 3..Len(value) :
                         /\ Char(value, j) = ">"
                         /\ \A k \in 2..(j - 1) : Char(value, k) # ">"}
       IN  IF Char(value, 1) = "<" /\ closing # {}
           THEN stripTags(SubSeq(value, (CHOOSE j \in closing : TRUE) + 1,
                                 Len(value)))
           ELSE Char(value, 1) \o stripTags(SubSeq(value, 2, Len(value)))

\* map.set(lemma, rawTranslation) on every entry, the later entry winning
Keep_LastWins(map, lemma, rawTranslation) == Put(map, lemma, rawTranslation)

\* if (!map.has(lemma)) map.set(lemma, rawTranslation)
Keep(map, lemma, rawTranslation) ==
  IF lemma \in DOMAIN map THEN map ELSE Put(map, lemma, rawTranslation)

\* the dictionary is the sequence of its entry blocks, each with the text
\* between its orth tags, its pos tags and the quote tags of its
\* translation, where it has them
RECURSIVE EntryLoop(_, _, _)
EntryLoop(entries, i, map) ==
  IF i > Len(entries) THEN map
  ELSE LET entry == entries[i]
           lemma == normalizeText(stripTags(entry.orth))
           pos == toLowerCase(normalizeText(stripTags(entry.pos)))
           rawTranslation == normalizeText(stripTags(entry.quote))
       IN  IF "orth" \notin DOMAIN entry THEN EntryLoop(entries, i + 1, map)
           ELSE IF lemma = "" THEN EntryLoop(entries, i + 1, map)
           ELSE IF "pos" \notin DOMAIN entry THEN EntryLoop(entries, i + 1, map)
           ELSE IF ~(pos = "v" \/ StartsWith(pos, "verb"))
           THEN EntryLoop(entries, i + 1, map)
           ELSE IF "quote" \notin DOMAIN entry
           THEN EntryLoop(entries, i + 1, map)
           ELSE IF rawTranslation = "" THEN EntryLoop(entries, i + 1, map)
           ELSE EntryLoop(entries, i + 1, Keep(map, lemma, rawTranslation))

parseFreeDict(teiText) == EntryLoop(teiText, 1, <<>>)

MaxEntries == 3

\* entries of the dictionary: two verbs of one lemma, a headword in
\* capitals, a noun, entries without translation, headword or part of
\* speech, a headword and a translation with blanks and tags
Entries ==
  { [orth |-> "anar", pos |-> "v", quote |-> "to go"],
    [orth |-> "anar", pos |-> "verb", quote |-> "walk"],
    [orth |-> "Anar", pos |-> "V", quote |-> "go"],
    [orth |-> "anar", pos |-> "n", quote |-> "going"],
    [orth |-> "anar", pos |-> "v"],
    [orth |-> "anar", pos |-> "v", quote |-> "<i> </i>"],
    [orth |-> " fer  cas ", pos |-> "Verb tr", quote |-> " <b>to heed</b>"],
    [pos |-> "v", quote |-> "to be"],
    [orth |-> "fer", quote |-> "to do"] }

Dictionaries == SeqsUpTo(Entries, MaxEntries)

InitFreeDict ==
  /\ html \in Dictionaries
  /\ AppIdle
  /\ build = "current"
  /\ call = NoCall
  /\ BuildIdle
  /\ SessionIdle

CallParseFreeDict ==
  /\ call = NoCall
  /\ call' = [op |-> "parseFreeDict", ret |-> parseFreeDict(html)]
  /\ EngineFrame

NextFreeDict == CallParseFreeDict

SpecFreeDict == InitFreeDict /\ [][NextFreeDict]_vars

\* the lemma an entry is filed under, and its translation
EntryLemma(entry) == normalizeText(stripTags(entry.orth))

EntryTranslation(entry) == normalizeText(stripTags(entry.quote))

\* the entry has a lemma, a verb part of speech and a translation
IsVerbEntry(entry) ==
  /\ {"orth", "pos", "quote"} \subseteq DOMAIN entry
  /\ EntryLemma(entry) # ""
  /\ LET pos == toLowerCase(normalizeText(stripTags(entry.pos)))
     IN  pos = "v" \/ StartsWith(pos, "verb")
  /\ EntryTranslation(entry) # ""

VerbEntries(entries) == {i \in DOMAIN entries : IsVerbEntry(entries[i])}

\* C13: the translation parseFreeDict maps to a lemma is that of the first
\* entry, in document order, with that lemma, a verb part of speech and a
\* non-empty translation; later entries of the lemma never change it.
C13_FirstWins ==
  call.op = "parseFreeDict" =>
    /\ DOMAIN call.ret = {EntryLemma(html[i]) : i \in VerbEntries(html)}
    /\ \A i \in VerbEntries(html) :
         (\A k \in VerbEntries(html) :
            EntryLemma(html[k]) = EntryLemma(html[i]) => k >= i)
           => call.ret[EntryLemma(html[i])] = EntryTranslation(html[i])

\* a dictionary with two verb entries of one lemma and different
\* translations has been parsed
C13_Witness ==
  /\ call.op = "parseFreeDict"
  /\ \E i, k \in VerbEntries(html) :
       /\ i < k
       /\ EntryLemma(html[i]) = EntryLemma(html[k])
       /\ EntryTranslation(html[i]) # EntryTranslation(html[k])

HasDoubleBlank(s) ==
  \E i \in 1..(Len(s) - 1) : Char(s, i) = " " /\ Char(s, i + 1) = " "

\* C14: every key of the mapping parseFreeDict returns is a lowercase lemma
\* with collapsed internal whitespace.
C14_KeysAreLowercase ==
  call.op = "parseFreeDict" =>
    \A lemma \in DOMAIN call.ret :
      /\ lemma = toLowerCase(lemma)
      /\ ~HasDoubleBlank(lemma)
      /\ lemma = Trim(lemma)

\* a dictionary with a verb entry whose headword has a capital letter has
\* been parsed
C14_Witness ==
  /\ call.op = "parseFreeDict"
  /\ \E i \in VerbEntries(html) :
       EntryLemma(html[i]) # toLowerCase(EntryLemma(html[i]))

\* the keys have collapsed whitespace and no blank at either end
C14_KeysAreCollapsed ==
  call.op = "parseFreeDict" =>
    \A lemma \in DOMAIN call.ret :
      ~HasDoubleBlank(lemma) /\ lemma = Trim(lemma)

---------------------------------------------------------------------------
(* The cache-backed fetches of the build script *)

\* A fetch works on the files on disk and on the network, w.files and w.net:
\* files maps a path to the content of the file, net is the sequence of the
\* requests made so far, each with its URL and whether it succeeded.  The server answers a request with a response: a
\* success status and a body, or another status.  A fetch gives the files
\* and the network after it and what it returned or threw.
Failed == [ok |-> FALSE]

Ok(body) == [ok |-> TRUE, body |-> body]

Thrown(r) == "error" \in DOMAIN r.out

FREQUENCY_URL == "catalan.txt"

FREEDICT_SRC_URL == "freedict.tar.xz"

fetchText(w, url, response) ==
  [w |-> [w EXCEPT !.net = Append(@, [url |-> url, ok |-> response.ok])],
   out |-> IF response.ok THEN [value |-> response.body]
           ELSE [error |-> "Failed to fetch " \o url]]

fetchBuffer(w, url, response) ==
  [w |-> [w EXCEPT !.net = Append(@, [url |-> url, ok |-> response.ok])],
   out |-> IF response.ok THEN [value |-> response.body]
           ELSE [error |-> "Failed to fetch " \o url]]

\* fs.writeFileSync(cachePath, r.out.value) after a fetch that returned
WriteFetched(r, cachePath) ==
  IF Thrown(r) THEN r
  ELSE [w |-> [r.w EXCEPT !.files = Put(@, cachePath, r.out.value)],
        out |-> r.out]

\* fetchTextCached without the test of fs.existsSync(cachePath)
fetchTextCached_NoCache(w, url, cachePath, response) ==
  WriteFetched(fetchText(w, url, response), cachePath)

fetchTextCached(w, url, cachePath, response) ==
  IF cachePath \in DOMAIN w.files
  THEN [w |-> w, out |-> [value |-> w.files[cachePath]]]
  ELSE WriteFetched(fetchText(w, url, response), cachePath)

fetchBufferCached(w, url, cachePath, response) ==
  IF cachePath \in DOMAIN w.files
  THEN [w |-> w, out |-> [value |-> w.files[cachePath]]]
  ELSE WriteFetched(fetchBuffer(w, url, response), cachePath)

\* the archive is the sequence of its files in the order the traversal of
\* the extracted tree meets them; the files of the temporary directory are
\* left out of w.files
fetchTeiFromTarXz(w, url, response) ==
  LET r == fetchBufferCached(w, url, "freedict.tar.xz", response)
      tei == {i \in DOMAIN r.out.value : EndsWith(r.out.value[i].name, ".tei")}
  IN  IF Thrown(r) THEN r
      ELSE IF tei = {}
      THEN [w |-> r.w,
            out |-> [error |-> "Failed to locate .tei in FreeDict source archive"]]
      ELSE [w |-> r.w,
            out |-> [value |->
                       r.out.value[CHOOSE i \in tei : \A k \in tei : i <= k].text]]

\* the body of a suggestion response is text that JSON.parse rejects
\* ([json |-> FALSE]), a JSON value that is no array ([json |-> TRUE]) or an
\* array of items, each with a suggestion and a url where it has them
SuggestionUrl(infinitive) == "suggest=" \o infinitive

SuggestionCache(infinitive) == "verbs-cat-suggest-" \o infinitive \o ".json"

\* data.find(item => item?.suggestion?.toLowerCase() === normalized) || data[0]
Chosen(data, normalized) ==
  LET exact == {i \in DOMAIN data :
                  /\ "suggestion" \in DOMAIN data[i]
                  /\ toLowerCase(data[i].suggestion) = normalized}
  IN  IF exact = {} THEN data[1]
      ELSE data[CHOOSE i \in exact : \A k \in exact : i <= k]

fetchConjugationUrl(w, infinitive, response) ==
  LET r == IF SuggestionCache(infinitive) \in DOMAIN w.files
           THEN [w |-> w,
                 out |-> [value |-> w.files[SuggestionCache(infinitive)]]]
           ELSE WriteFetched(fetchText(w, SuggestionUrl(infinitive), response),
                             SuggestionCache(infinitive))
      raw == r.out.value
      chosen == Chosen(raw.data, toLowerCase(infinitive))
  IN  IF Thrown(r) THEN r
      ELSE IF ~raw.json
      THEN [w |-> r.w,
            out |-> [error |-> "Failed to parse suggestion response for "
                                 \o infinitive]]
      ELSE IF "data" \notin DOMAIN raw \/ Len(raw.data) = 0
      THEN [w |-> r.w, out |-> [error |-> "No suggestions for " \o infinitive]]
      ELSE IF "url" \notin DOMAIN chosen
      THEN [w |-> r.w,
            out |-> [error |-> "Missing conjugation URL for " \o infinitive]]
      ELSE [w |-> r.w, out |-> [value |-> "verbs.cat" \o chosen.url]]

fetchConjugationHtml(w, infinitive, suggestions, response) ==
  LET url == fetchConjugationUrl(w, infinitive, suggestions)
  IN  IF Thrown(url) THEN url
      ELSE fetchText(url.w, url.out.value, response)

PageCache(infinitive) == "verbs-cat-" \o infinitive \o ".html"

\* html.includes(text): a page is the function from its headings to the
\* tables under them
Includes(page, text) == text \in DOMAIN page

\* parseConjugationsFromHtml(html, infinitive) after html was obtained
ParseFetched(r, infinitive) ==
  IF Thrown(r) THEN r
  ELSE LET parsed == parseConjugationsFromHtml(r.out.value, infinitive)
       IN  [w |-> r.w,
            out |-> IF "error" \in DOMAIN parsed THEN parsed
                    ELSE [value |-> parsed.tenses]]

fetchIrregularConjugations(w, infinitive, suggestions, response) ==
  LET cachePath == PageCache(infinitive)
      cached == [w |-> w, out |-> [value |-> w.files[cachePath]]]
      fetched == WriteFetched(
                   fetchConjugationHtml(w, infinitive, suggestions, response),
                   cachePath)
  IN  IF cachePath \in DOMAIN w.files
      THEN IF ~Includes(w.files[cachePath], "Indicative mood")
           THEN ParseFetched(fetched, infinitive)
           ELSE ParseFetched(cached, infinitive)
      ELSE ParseFetched(fetched, infinitive)

---------------------------------------------------------------------------
(* The conjugation fetch of the 200-verb build *)

\* rawLine.replace(/\|/g, " ")
RECURSIVE ReplaceBars(_)
ReplaceBars(s) ==
  IF Len(s) = 0 THEN ""
  ELSE (IF Char(s, 1) = "|" THEN " " ELSE Char(s, 1))
       \o ReplaceBars(SubSeq(s, 2, Len(s)))

\* line.replace(/^label\s+/, "") on a normalized line
StripLabel(line, label) ==
  IF StartsWith(line, label \o " ")
  THEN SubSeq(line, Len(label) + 2, Len(line))
  ELSE line

\* the label of the branch of extractVerbForms a line takes, with its key
LineLabels ==
  << [starts |-> "jo ", label |-> "jo", key |-> "jo"],
     [starts |-> "tu ", label |-> "tu", key |-> "tu"],
     [starts |-> "ell, ella, vostè", label |-> "ell, ella, vostè",
      key |-> "ell"],
     [starts |-> "nosaltres ", label |-> "nosaltres", key |-> "nosaltres"],
     [starts |-> "vosaltres, vós ", label |-> "vosaltres, vós",
      key |-> "vosaltres"],
     [starts |-> "ells, elles, vostès ", label |-> "ells, elles, vostès",
      key |-> "ells"] >>

\* the first loop of extractVerbForms
RECURSIVE LineLoop(_, _, _)
LineLoop(blockLines, i, forms) ==
  IF i > Len(blockLines) THEN forms
  ELSE LET line == normalizeText(ReplaceBars(blockLines[i]))
           taken == {b \in DOMAIN LineLabels :
                       StartsWith(line, LineLabels[b].starts)}
           branch == LineLabels[CHOOSE b \in taken : \A k \in taken : b <= k]
       IN  IF line = "" \/ taken = {} THEN LineLoop(blockLines, i + 1, forms)
           ELSE LineLoop(blockLines, i + 1,
                         Put(forms, branch.key, StripLabel(line, branch.label)))

\* the second loop: every stored form is cleaned
extractVerbForms(blockLines) ==
  LET forms == LineLoop(blockLines, 1, <<>>)
  IN  [key \in DOMAIN forms |->
         Trim(RemoveGroups(BeforeComma(forms[key], 1), 1))]

LegacyLabels == <<"Present", "Imperfect", "Future", "Conditional">>

\* sliceTenseLines: the lines under the label of the tense, none when the
\* page has no such label; a page is the function from its labels to the
\* lines under them
sliceTenseLines(page, tenseLabel) ==
  IF tenseLabel \in DOMAIN page THEN page[tenseLabel] ELSE <<>>

\* the loop over PERSON_LABELS: the message of the first throw, "" when the
\* loop ends
RECURSIVE LegacyRequiredLoop(_, _, _)
LegacyRequiredLoop(tenses, infinitive, j) ==
  IF j > Len(PERSON_LABELS) THEN ""
  ELSE IF \E t \in DOMAIN tenses : Falsy(tenses[t], PERSON_LABELS[j])
  THEN "Missing " \o PERSON_LABELS[j] \o " for " \o infinitive
  ELSE LegacyRequiredLoop(tenses, infinitive, j + 1)

LegacyPageUrl(infinitive) == "conjugation/" \o infinitive \o ".html"

fetchIrregularConjugationsLegacy(w, infinitive, response) ==
  LET r == fetchTextCached(w, LegacyPageUrl(infinitive), PageCache(infinitive),
                           response)
      page == r.out.value
      tenses ==
        [present     |-> extractVerbForms(sliceTenseLines(page, "Present")),
         imperfect   |-> extractVerbForms(sliceTenseLines(page, "Imperfect")),
         future      |-> extractVerbForms(sliceTenseLines(page, "Future")),
         conditional |-> extractVerbForms(sliceTenseLines(page, "Conditional"))]
      thrown == LegacyRequiredLoop(tenses, infinitive, 1)
  IN  IF Thrown(r) THEN r
      ELSE IF thrown # "" THEN [w |-> r.w, out |-> [error |-> thrown]]
      ELSE [w |-> r.w, out |-> [value |-> tenses]]

---------------------------------------------------------------------------
(* The build script: selection of the verbs *)

\* the fixed maximum verb count of the 500-verb build; the model takes a
\* small maximum so that short frequency lists reach it
MAX_VERBS == 2

\* the maximum of the 200-verb build, scaled likewise
MAX_VERBS_Legacy == 2

IRREGULAR_VERBS ==
  {"ser", "estar", "anar", "fer", "tenir", "venir", "dir", "veure",
   "conèixer", "creure", "poder", "voler", "saber", "haver", "dur", "posar",
   "prendre", "treure", "moure", "riure", "caure", "valer", "sortir", "seure",
   "asseure", "fondre", "sorprendre"}

IRREGULAR_VERBS_Legacy ==
  <<"ser", "estar", "anar", "fer", "tenir", "venir", "dir", "veure",
    "conèixer", "creure", "poder", "voler", "saber", "haver", "dur", "posar",
    "prendre", "treure", "moure", "riure", "caure", "valer", "sortir">>

\* how many of IRREGULAR_VERBS_Legacy the model fetches: fewer than
\* MAX_VERBS_Legacy, as the list of the script is shorter than its maximum
NumIrregulars == 1

MANUAL_TRANSLATIONS ==
  [ser |-> "to be", estar |-> "to be", anar |-> "to go", fer |-> "to do",
   tenir |-> "to have", venir |-> "to come", dir |-> "to say",
   veure |-> "to see", poder |-> "to be able", voler |-> "to want",
   saber |-> "to know", haver |-> "to have", posar |-> "to put",
   sortir |-> "to go out"]

\* map.get(key), object[key]: "" stands for undefined
Get(map, key) == IF key \in DOMAIN map THEN map[key] ELSE ""

\* a || b
Or(a, b) == IF a # "" THEN a ELSE b

getGroup(infinitive) ==
  IF EndsWith(infinitive, "ar") THEN "ar"
  ELSE IF EndsWith(infinitive, "ir") THEN "ir"
  ELSE "er"

\* value.split(c)[0]
RECURSIVE BeforeChar(_, _, _)
BeforeChar(s, c, i) ==
  IF i > Len(s) \/ Char(s, i) = c THEN ""
  ELSE Char(s, i) \o BeforeChar(s, c, i + 1)

normalizeTranslation(value) ==
  LET cleaned == Trim(BeforeChar(BeforeChar(value, ";", 1), ",", 1))
  IN  IF value = "" THEN value
      ELSE IF cleaned = "" THEN value
      ELSE IF StartsWith(cleaned, "to ") THEN cleaned
      ELSE "to " \o cleaned

isVerbCandidate(word) ==
  /\ word # ""
  /\ ~HasChar(word, " ")
  /\ ~HasChar(word, "-")
  /\ ~HasChar(word, "'")
  /\ ~(EndsWith(word, "-se") \/ EndsWith(word, "se"))
  /\ \/ EndsWith(word, "ar")
     \/ EndsWith(word, "er")
     \/ EndsWith(word, "re")
     \/ EndsWith(word, "ir")

\* /(car|gar|çar)$/i.test(word)
IsOrthographic(word) ==
  \E ending \in {"car", "gar", "çar"} : EndsWith(toLowerCase(word), ending)

\* trimmed.split(/\s+/) of a trimmed line that is not empty
RECURSIVE SplitBlanks(_)
SplitBlanks(s) ==
  LET first == BeforeChar(s, " ", 1)
  IN  IF Len(first) = Len(s) THEN <<s>>
      ELSE <<first>> \o SplitBlanks(SubSeq(s, Len(first) + 2, Len(s)))

\* the text of the frequency list is the sequence of its lines
RECURSIVE LinesLoop(_, _)
LinesLoop(lines, i) ==
  IF i > Len(lines) THEN <<>>
  ELSE LET trimmed == Trim(lines[i])
           parts == SplitBlanks(CollapseBlanks(trimmed, 1))
       IN  IF trimmed = "" THEN LinesLoop(lines, i + 1)
           ELSE IF Len(parts) < 2 THEN LinesLoop(lines, i + 1)
           ELSE IF parts[2] = "" THEN LinesLoop(lines, i + 1)
           ELSE <<toLowerCase(parts[2])>> \o LinesLoop(lines, i + 1)

parseFrequencyList(text) == LinesLoop(text, 1)

\* selected.length >= MAX_VERBS with a maximum no list reaches
AtCapacity_Never(n) == FALSE

\* selected.length >= MAX_VERBS
AtCapacity(n) == n >= MAX_VERBS

\* regularData.length + irregularData.length >= 200
AtCapacityLegacy(n) == n >= MAX_VERBS_Legacy

---------------------------------------------------------------------------
(* The build script: main *)

MaxLines == 3

\* lines of the frequency list: an irregular verb, a verb in -car, a regular
\* verb, the same verb with a capital, a word that is no verb, a line with
\* one field
FrequencyLines ==
  {"1 anar", "2 tocar", "3 parlar", "4 Parlar", "5 que", "7"}

FrequencyLists == SeqsUpTo(FrequencyLines, MaxLines)

\* the dictionaries the archive may hold: glosses with and without "to", with
\* a second sense after a separator, of the one word "to", and with nothing
\* before the first separator
TeiTexts ==
  { << [orth |-> "anar", pos |-> "v", quote |-> "go; walk"],
       [orth |-> "tocar", pos |-> "v", quote |-> "to touch, play"],
       [orth |-> "parlar", pos |-> "v", quote |-> "speak"] >>,
    << [orth |-> "parlar", pos |-> "verb", quote |-> "to"],
       [orth |-> "tocar", pos |-> "v", quote |-> ", to touch"] >> }

\* what the server of the frequency list answers
FrequencyResponses == {Failed} \cup {Ok(text) : text \in FrequencyLists}

\* what the server of the dictionary answers: no success, an archive
\* without a .tei file, an archive with one
ArchiveResponses ==
  {Failed, Ok(<<[name |-> "README", text |-> <<>>]>>)}
  \cup {Ok(<<[name |-> "README", text |-> <<>>],
             [name |-> "cat-eng.tei", text |-> tei]>>) : tei \in TeiTexts}

\* what the suggestion service answers for a verb
SuggestionResponses(infinitive) ==
  {Failed,
   Ok([json |-> TRUE, data |-> <<>>]),
   Ok([json |-> TRUE,
       data |-> <<[suggestion |-> infinitive \o "-se",
                   url |-> "/c/" \o infinitive \o "-se"],
                  [suggestion |-> infinitive, url |-> "/c/" \o infinitive]>>])}

\* the page of the source with the heading of its first section
GoodPage == ("Indicative mood" :> <<>>) @@ SourcePage

\* what the server answers for a page: no success, the page, a page
\* without tables
PageResponses == {Failed, Ok(GoodPage), Ok(<<>>)}

\* the page of the source as the 200-verb build reads it: the lines under
\* the labels of its four tenses
LegacyLines ==
  <<"jo vaig", "tu vas", "ell, ella, vostè va", "nosaltres anem",
    "vosaltres, vós aneu", "ells, elles, vostès van">>

LegacyPage ==
  [Present |-> LegacyLines, Imperfect |-> LegacyLines, Future |-> LegacyLines,
   Conditional |-> LegacyLines]

LegacyPageResponses == {Failed, Ok(LegacyPage), Ok(<<>>)}

\* a dataset written by an earlier run
OldDataset == <<[infinitive |-> "ser", translation |-> "to be"]>>

InitialFiles == {NoFiles, Put(NoFiles, "verbs.json", OldDataset)}

InitBuild ==
  /\ build \in {"current", "legacy"}
  /\ script = [pc |-> "start"]
  /\ files \in InitialFiles
  /\ net = <<>>
  /\ html = <<>>
  /\ call = NoCall
  /\ AppIdle
  /\ SessionIdle

BuildFrame ==
  UNCHANGED <<verbs, enabledPersons, enabledTenses, verbFilters, verbLimit,
              currentPrompt, configError, storedSettings, mounted, build,
              html, call, SessionVars>>

\* main().catch without process.exit(1): the process ends with status 0
Exit_Success(error) == [pc |-> "failed", error |-> error, exit |-> 0]

\* main().catch: console.error(error); process.exit(1)
Exit(error) == [pc |-> "failed", error |-> error, exit |-> 1]

\* the locals of main after the sources were read
Locals(translationMap, freqWords) ==
  IF build = "current"
  THEN [pc |-> "walk", translationMap |-> translationMap,
        freqWords |-> freqWords, i |-> 1, selected |-> <<>>,
        missingTranslations |-> <<>>, orthographyCandidates |-> <<>>,
        rank |-> 0, c |-> 1, verbs |-> <<>>, missingConjugations |-> <<>>,
        j |-> 1]
  ELSE [pc |-> "irregulars", translationMap |-> translationMap,
        freqWords |-> freqWords, k |-> 1, irregularData |-> <<>>,
        missingIrregulars |-> <<>>, i |-> 1, regularData |-> <<>>,
        missingTranslations |-> <<>>, orthographyCandidates |-> <<>>,
        c |-> 1]

\* main up to the candidate walk: the frequency list and the dictionary
\* are fetched and parsed
AcquireSources ==
  /\ script.pc = "start"
  /\ \E frequency \in FrequencyResponses, archive \in ArchiveResponses :
       LET text == fetchTextCached([files |-> files, net |-> net],
                                   FREQUENCY_URL, "catalan-frequency.txt",
                                   frequency)
           tei == fetchTeiFromTarXz(text.w, FREEDICT_SRC_URL, archive)
       IN  IF Thrown(text)
           THEN /\ script' = Exit(text.out.error)
                /\ files' = text.w.files
                /\ net' = text.w.net
           ELSE IF Thrown(tei)
           THEN /\ script' = Exit(tei.out.error)
                /\ files' = tei.w.files
                /\ net' = tei.w.net
           ELSE /\ script' = Locals(parseFreeDict(tei.out.value),
                                    parseFrequencyList(text.out.value))
                /\ files' = tei.w.files
                /\ net' = tei.w.net
  /\ BuildFrame

\* fs.writeFileSync(path, lines.join("\n")) when lines is not empty
WriteLines(fs, path, lines) ==
  IF Len(lines) > 0 THEN Put(fs, path, lines) ELSE fs

\* one turn of the loop over freqWords, or its end
WalkStep ==
  /\ build = "current"
  /\ script.pc = "walk"
  /\ LET word == script.freqWords[script.i]
         translationRaw == Get(script.translationMap, word)
         translation == normalizeTranslation(translationRaw)
         next == [script EXCEPT !.i = @ + 1]
     IN  IF script.i > Len(script.freqWords)
              \/ AtCapacity(Len(script.selected))
         THEN script' = [script EXCEPT !.pc = "second"]
         ELSE IF ~isVerbCandidate(word) THEN script' = next
         ELSE IF translationRaw = ""
         THEN script' = [next EXCEPT !.missingTranslations = Append(@, word)]
         ELSE IF IsOrthographic(word)
         THEN script' =
                [next EXCEPT
                   !.rank = @ + 1,
                   !.orthographyCandidates =
                      Append(@, [infinitive |-> word,
                                 translation |-> translation,
                                 rank |-> script.rank + 1])]
         ELSE script' =
                [next EXCEPT
                   !.rank = @ + 1,
                   !.selected =
                      Append(@, [infinitive |-> word,
                                 translation |-> translation,
                                 rank |-> script.rank + 1])]
  /\ UNCHANGED <<files, net>>
  /\ BuildFrame

\* one turn of the loop over orthographyCandidates, or its end and the
\* write of missing-translations.txt
SecondPassStep ==
  /\ build = "current"
  /\ script.pc = "second"
  /\ IF script.c > Len(script.orthographyCandidates)
          \/ AtCapacity(Len(script.selected))
     THEN /\ script' = [script EXCEPT !.pc = "fetch"]
          /\ files' = WriteLines(files, "missing-translations.txt",
                                 script.missingTranslations)
     ELSE /\ script' =
               [script EXCEPT
                  !.c = @ + 1,
                  !.selected =
                     Append(@, script.orthographyCandidates[script.c])]
          /\ UNCHANGED files
  /\ UNCHANGED net
  /\ BuildFrame

\* the body of the loop over selected, given what fetchIrregularConjugations
\* did (r): the verb goes to verbs, or to missingConjugations in the catch
Conjugated(verb, r) ==
  LET isIrregular == verb.infinitive \in IRREGULAR_VERBS
                       \/ IsOrthographic(verb.infinitive)
      entry ==
        [infinitive |-> verb.infinitive,
         translation |->
           normalizeTranslation(
             Or(Get(script.translationMap, verb.infinitive),
                Or(verb.translation,
                   Get(MANUAL_TRANSLATIONS, verb.infinitive)))),
         regular |-> ~isIrregular,
         group |-> getGroup(verb.infinitive),
         rank |-> verb.rank,
         tenses |-> r.out.value]
  IN  /\ script' =
           IF Thrown(r)
           THEN [script EXCEPT
                   !.j = @ + 1,
                   !.missingConjugations =
                      Append(@, verb.infinitive \o ": " \o r.out.error)]
           ELSE [script EXCEPT !.j = @ + 1,
                               !.verbs = Append(@, entry)]
      /\ files' = r.w.files
      /\ net' = r.w.net

\* one turn of the loop over selected: the conjugations of a verb are
\* fetched, the servers answering as they choose
FetchStep ==
  /\ build = "current"
  /\ script.pc = "fetch"
  /\ script.j <= Len(script.selected)
  /\ \E suggestions \in SuggestionResponses(
                          script.selected[script.j].infinitive),
        response \in PageResponses :
       Conjugated(script.selected[script.j],
                  fetchIrregularConjugations(
                    [files |-> files, net |-> net],
                    script.selected[script.j].infinitive,
                    suggestions, response))
  /\ BuildFrame

\* the end of main: missing-conjugations.txt and verbs.json are written
WriteOutput ==
  /\ build = "current"
  /\ script.pc = "fetch"
  /\ script.j > Len(script.selected)
  /\ script' = [script EXCEPT !.pc = "done"]
  /\ files' = Put(WriteLines(files, "missing-conjugations.txt",
                             script.missingConjugations),
                  "verbs.json", script.verbs)
  /\ UNCHANGED net
  /\ BuildFrame

\* the 200-verb build: one turn of the loop over IRREGULAR_VERBS, or its end
IrregularStepLegacy ==
  /\ build = "legacy"
  /\ script.pc = "irregulars"
  /\ IF script.k > NumIrregulars
     THEN /\ script' = [script EXCEPT !.pc = "walk"]
          /\ UNCHANGED <<files, net>>
     ELSE LET verb == IRREGULAR_VERBS_Legacy[script.k]
          IN  \E response \in LegacyPageResponses :
                LET r == fetchIrregularConjugationsLegacy(
                           [files |-> files, net |-> net], verb, response)
                    entry ==
                      [infinitive |-> verb,
                       translation |->
                         normalizeTranslation(
                           Or(Get(script.translationMap, verb),
                              Get(MANUAL_TRANSLATIONS, verb))),
                       regular |-> FALSE,
                       group |-> getGroup(verb),
                       tenses |-> r.out.value]
                IN  /\ script' =
                         IF Thrown(r)
                         THEN [script EXCEPT
                                 !.k = @ + 1,
                                 !.missingIrregulars =
                                    Append(@, verb \o ": " \o r.out.error)]
                         ELSE [script EXCEPT
                                 !.k = @ + 1,
                                 !.irregularData = Append(@, entry)]
                    /\ files' = r.w.files
                    /\ net' = r.w.net
  /\ BuildFrame

\* the 200-verb build: one turn of the loop over freqWords, or its end
WalkStepLegacy ==
  /\ build = "legacy"
  /\ script.pc = "walk"
  /\ LET word == script.freqWords[script.i]
         translationRaw == Get(script.translationMap, word)
         translation == normalizeTranslation(translationRaw)
         next == [script EXCEPT !.i = @ + 1]
     IN  IF script.i > Len(script.freqWords)
              \/ AtCapacityLegacy(Len(script.regularData)
                                    + Len(script.irregularData))
         THEN script' = [script EXCEPT !.pc = "second"]
         ELSE IF ~isVerbCandidate(word) THEN script' = next
         ELSE IF word \in Range(IRREGULAR_VERBS_Legacy) THEN script' = next
         ELSE IF translationRaw = ""
         THEN script' = [next EXCEPT !.missingTranslations = Append(@, word)]
         ELSE IF IsOrthographic(word)
         THEN script' =
                [next EXCEPT
                   !.orthographyCandidates =
                      Append(@, [infinitive |-> word,
                                 translation |-> translation])]
         ELSE script' =
                [next EXCEPT
                   !.regularData =
                      Append(@, [infinitive |-> word,
                                 translation |-> translation,
                                 regular |-> TRUE,
                                 group |-> getGroup(word)])]
  /\ UNCHANGED <<files, net>>
  /\ BuildFrame

\* the 200-verb build: one turn of the loop over orthographyCandidates,
\* whose catch files the verb as a regular one; or the end of the loop and
\* of main, where the diagnostics and verbs.json are written
SecondPassStepLegacy ==
  /\ build = "legacy"
  /\ script.pc = "second"
  /\ IF script.c > Len(script.orthographyCandidates)
          \/ AtCapacityLegacy(Len(script.regularData)
                                + Len(script.irregularData))
     THEN /\ script' = [script EXCEPT !.pc = "done"]
          /\ files' =
               Put(WriteLines(WriteLines(files, "missing-translations.txt",
                                         script.missingTranslations),
                              "missing-irregulars.txt",
                              script.missingIrregulars),
                   "verbs.json", script.irregularData \o script.regularData)
          /\ UNCHANGED net
     ELSE LET candidate == script.orthographyCandidates[script.c]
          IN  \E response \in LegacyPageResponses :
                LET r == fetchIrregularConjugationsLegacy(
                           [files |-> files, net |-> net],
                           candidate.infinitive, response)
                IN  /\ script' =
                         IF Thrown(r)
                         THEN [script EXCEPT
                                 !.c = @ + 1,
                                 !.regularData =
                                    Append(@,
                                      [infinitive |-> candidate.infinitive,
                                       translation |-> candidate.translation,
                                       regular |-> TRUE,
                                       group |->
                                         getGroup(candidate.infinitive)])]
                         ELSE [script EXCEPT
                                 !.c = @ + 1,
                                 !.irregularData =
                                    Append(@,
                                      [infinitive |-> candidate.infinitive,
                                       translation |-> candidate.translation,
                                       regular |-> FALSE,
                                       group |->
                                         getGroup(candidate.infinitive),
                                       tenses |-> r.out.value])]
                    /\ files' = r.w.files
                    /\ net' = r.w.net
  /\ BuildFrame

NextBuild ==
  \/ AcquireSources
  \/ WalkStep
  \/ SecondPassStep
  \/ FetchStep
  \/ WriteOutput
  \/ IrregularStepLegacy
  \/ WalkStepLegacy
  \/ SecondPassStepLegacy

SpecBuild == InitBuild /\ [][NextBuild]_vars

\* the entries of the written dataset
Dataset == files["verbs.json"]

Written == script.pc = "done"

\* C15: at every point of the candidate walk and of the second pass the
\* number of selected verbs is at most the maximum verb count, and the
\* written dataset has at most that many entries; in both builds.
C15_NeverMoreThanMaximum ==
  /\ (build = "current" /\ "selected" \in DOMAIN script)
       => Len(script.selected) <= MAX_VERBS
  /\ (build = "current" /\ Written) => Len(Dataset) <= MAX_VERBS
  /\ (build = "legacy" /\ "regularData" \in DOMAIN script)
       => Len(script.regularData) + Len(script.irregularData)
            <= MAX_VERBS_Legacy
  /\ (build = "legacy" /\ Written) => Len(Dataset) <= MAX_VERBS_Legacy

\* the second pass stopped at the maximum with a deferred verb left over,
\* and the dataset was written
C15_Witness ==
  /\ build = "current"
  /\ Written
  /\ Len(script.selected) = MAX_VERBS
  /\ script.c <= Len(script.orthographyCandidates)

\* the deferred verbs the second pass never appended
CutOff ==
  {script.orthographyCandidates[n] :
     n \in script.c..Len(script.orthographyCandidates)}

\* C16: in the dataset of the 500-verb build the ranks, in dataset order,
\* are strictly increasing, and no rank below a rank of the dataset is
\* missing because its verb was deferred to the second pass and cut off by
\* the maximum.
C16_RanksStrictlyIncreasing ==
  (build = "current" /\ Written) =>
    /\ \A a, b \in DOMAIN Dataset : a < b => Dataset[a].rank < Dataset[b].rank
    /\ \A candidate \in CutOff :
         \A a \in DOMAIN Dataset : Dataset[a].rank < candidate.rank

\* a dataset with a deferred verb and a verb met after it was written
C16_Witness ==
  /\ build = "current"
  /\ Written
  /\ \E a, b \in DOMAIN Dataset :
       /\ IsOrthographic(Dataset[a].infinitive)
       /\ ~IsOrthographic(Dataset[b].infinitive)
       /\ Dataset[a].rank < Dataset[b].rank

\* the ranks of the dataset are pairwise distinct, and those of the verbs
\* of the first pass are strictly increasing in dataset order
C16_RanksDistinct ==
  (build = "current" /\ Written) =>
    /\ \A a, b \in DOMAIN Dataset : a # b => Dataset[a].rank # Dataset[b].rank
    /\ \A a, b \in DOMAIN Dataset :
         (/\ a < b
          /\ ~IsOrthographic(Dataset[a].infinitive)
          /\ ~IsOrthographic(Dataset[b].infinitive))
           => Dataset[a].rank < Dataset[b].rank

\* C17: the infinitives of the written dataset are pairwise distinct,
\* whatever the frequency list and the dictionary, in both builds.
C17_InfinitivesAreUnique ==
  Written =>
    \A a, b \in DOMAIN Dataset :
      a # b => Dataset[a].infinitive # Dataset[b].infinitive

\* a dataset of two verbs or more was written from a frequency list that
\* has a word on two lines
C17_Witness ==
  /\ Written
  /\ Len(Dataset) >= 2
  /\ \E a, b \in DOMAIN script.freqWords :
       a # b /\ script.freqWords[a] = script.freqWords[b]

\* the infinitives of the dataset are distinct when the words of the
\* frequency list are
C17_UniqueFromDistinctWords ==
  (/\ Written
   /\ \A a, b \in DOMAIN script.freqWords :
        a # b => script.freqWords[a] # script.freqWords[b])
    => \A a, b \in DOMAIN Dataset :
         a # b => Dataset[a].infinitive # Dataset[b].infinitive

\* the verbs whose conjugations main has fetched so far, in order
Fetched ==
  IF build = "current"
  THEN [n \in 1..(script.j - 1) |-> script.selected[n].infinitive]
  ELSE SubSeq(IRREGULAR_VERBS_Legacy, 1, script.k - 1)
       \o [n \in 1..(script.c - 1) |->
             script.orthographyCandidates[n].infinitive]

\* the entries of the dataset so far, and the diagnostics so far
Output ==
  IF build = "current" THEN script.verbs
  ELSE script.irregularData \o script.regularData

Diagnostics ==
  IF build = "current" THEN script.missingConjugations
  ELSE script.missingIrregulars

Count(seq, P(_)) == Cardinality({n \in DOMAIN seq : P(seq[n])})

\* every fetched verb is in the output with its table or in the
\* diagnostics with its reason, once for each time it was fetched, and
\* nowhere else
OneOfTwoPlaces ==
  \A w \in Range(Fetched) :
    LET Is(v) == v = w
        Tabled(e) == e.infinitive = w /\ "tenses" \in DOMAIN e
        Untabled(e) == e.infinitive = w /\ "tenses" \notin DOMAIN e
        Reason(line) == StartsWith(line, w \o ": ")
                          /\ Len(line) > Len(w) + 2
    IN  /\ Count(Fetched, Is)
             = Count(Output, Tabled) + Count(Diagnostics, Reason)
        /\ Count(Output, Untabled) = 0

\* the requests of the run so far are those of the two sources
OnlySourceRequests ==
  \A n \in DOMAIN net : net[n].url \in {FREQUENCY_URL, FREEDICT_SRC_URL}

\* C18: a failure to fetch or parse the conjugations of a verb never
\* aborts the build, and every verb whose conjugations were fetched is in
\* exactly one place: the dataset when its table was obtained, the
\* diagnostics with its reason when it failed; in both builds.
C18_FailureIsPerVerb ==
  /\ script.pc = "failed" => OnlySourceRequests
  /\ script.pc \notin {"start", "failed"} => OneOfTwoPlaces
  /\ Written =>
       \A e \in Range(Dataset) :
         e.infinitive \in Range(Fetched) => "tenses" \in DOMAIN e

\* a run in which the fetch of a verb failed and the fetch of a later verb
\* succeeded has written its dataset
C18_Witness ==
  /\ Written
  /\ \E a, b \in DOMAIN Fetched :
       /\ a < b
       /\ \E line \in Range(Diagnostics) :
            StartsWith(line, Fetched[a] \o ": ")
       /\ \E e \in Range(Dataset) :
            e.infinitive = Fetched[b] /\ "tenses" \in DOMAIN e

\* the 200-verb build has filed a verb in -car whose fetch failed as a
\* regular verb
C18_LegacyWitness ==
  /\ build = "legacy"
  /\ Written
  /\ \E e \in Range(Dataset) :
       IsOrthographic(e.infinitive) /\ "tenses" \notin DOMAIN e

\* the 500-verb build keeps to it
C18_CurrentBuild == build = "current" => C18_FailureIsPerVerb

\* verbs.json is as it was before the run: not there, or the dataset of an
\* earlier run (no run writes that dataset: its entries lack the fields of
\* the entries main builds)
DatasetUntouched ==
  "verbs.json" \in DOMAIN files => files["verbs.json"] = OldDataset

\* both sources were obtained: the frequency list and an archive with a
\* .tei file are on disk
SourcesObtained ==
  /\ "catalan-frequency.txt" \in DOMAIN files
  /\ "freedict.tar.xz" \in DOMAIN files
  /\ \E n \in DOMAIN files["freedict.tar.xz"] :
       EndsWith(files["freedict.tar.xz"][n].name, ".tei")

\* C19: when the frequency list or the dictionary archive cannot be
\* retrieved (a status that is no success, or no .tei file in the archive)
\* the build aborts with a failure exit and verbs.json is neither written
\* nor modified; the build goes on only with both sources.
C19_SourceFailureAborts ==
  /\ script.pc = "failed" => (script.exit = 1 /\ DatasetUntouched)
  /\ script.pc \notin {"start", "failed"} => SourcesObtained

\* the build aborted on an archive without a .tei file, after the frequency
\* list was obtained, with the dataset of an earlier run on disk
C19_Witness ==
  /\ script.pc = "failed"
  /\ "catalan-frequency.txt" \in DOMAIN files
  /\ "freedict.tar.xz" \in DOMAIN files
  /\ "verbs.json" \in DOMAIN files

\* the build aborted on a failed request for the frequency list
C19_StatusWitness ==
  /\ script.pc = "failed"
  /\ net = <<[url |-> FREQUENCY_URL, ok |-> FALSE]>>
  /\ "catalan-frequency.txt" \notin DOMAIN files

---------------------------------------------------------------------------
(* Sequences of cached fetches *)

MaxCalls == 4

\* what the servers may answer, the content changing between calls
TextResponses == {Failed, Ok(<<"1 anar">>), Ok(<<"1 anar", "2 tocar">>)}

BufferResponses ==
  {Failed,
   Ok(<<[name |-> "README", text |-> <<>>]>>),
   Ok(<<[name |-> "cat-eng.tei", text |-> <<>>]>>)}

CachedSuggestionResponses ==
  SuggestionResponses("anar") \cup {Ok([json |-> FALSE])}

InitCache ==
  /\ script = [pc |-> "calls", n |-> 0]
  /\ files = NoFiles
  /\ net = <<>>
  /\ call = NoCall
  /\ html = <<>>
  /\ build = "current"
  /\ AppIdle
  /\ SessionIdle

\* a call of one of the cached fetches: what it was called with and what
\* it returned or threw
Called(op, cachePath, r) ==
  /\ script.n < MaxCalls
  /\ script' = [script EXCEPT !.n = @ + 1]
  /\ call' = [op |-> op, cachePath |-> cachePath, out |-> r.out]
  /\ files' = r.w.files
  /\ net' = r.w.net
  /\ UNCHANGED <<verbs, enabledPersons, enabledTenses, verbFilters, verbLimit,
                 currentPrompt, configError, storedSettings, mounted, build,
                 html, SessionVars>>

CallFetchTextCached ==
  \E response \in TextResponses :
    Called("fetchTextCached", "catalan-frequency.txt",
           fetchTextCached([files |-> files, net |-> net], FREQUENCY_URL,
                           "catalan-frequency.txt", response))

CallFetchBufferCached ==
  \E response \in BufferResponses :
    Called("fetchBufferCached", "freedict.tar.xz",
           fetchBufferCached([files |-> files, net |-> net], FREEDICT_SRC_URL,
                             "freedict.tar.xz", response))

CallFetchConjugationUrl ==
  \E suggestions \in CachedSuggestionResponses :
    Called("fetchConjugationUrl", SuggestionCache("anar"),
           fetchConjugationUrl([files |-> files, net |-> net], "anar",
                               suggestions))

CallFetchIrregularConjugations ==
  \E suggestions \in CachedSuggestionResponses, response \in PageResponses :
    Called("fetchIrregularConjugations", PageCache("anar"),
           fetchIrregularConjugations([files |-> files, net |-> net], "anar",
                                      suggestions, response))

NextCache ==
  \/ CallFetchTextCached
  \/ CallFetchBufferCached
  \/ CallFetchConjugationUrl
  \/ CallFetchIrregularConjugations

SpecCache == InitCache /\ [][NextCache]_vars

\* the step is a call for a resource that is on disk: it asks the network
\* for nothing and leaves the disk as it is
Hit(cachePath) ==
  /\ cachePath \in DOMAIN files
  /\ net' = net
  /\ files' = files

\* the step is a call for a resource that is not on disk: it asks the
\* network, and the resource is on disk afterwards when, and only when,
\* the request for it succeeded (for a page, the request after the one for
\* the suggestions)
Miss(cachePath) ==
  /\ cachePath \notin DOMAIN files
  /\ net' # net
  /\ LET last == net'[Len(net')]
     IN  cachePath \in DOMAIN files'
           <=> /\ last.ok
               /\ call'.op = "fetchIrregularConjugations"
                    => last.url # SuggestionUrl("anar")

\* what a call of fetchTextCached or fetchBufferCached returns is what is
\* on disk after it
ReturnsPersisted ==
  (call'.op \in {"fetchTextCached", "fetchBufferCached"}
     /\ "value" \in DOMAIN call'.out)
    => call'.out.value = files'[call'.cachePath]

\* the step is a call of fetchIrregularConjugations with a page on disk
\* that lacks "Indicative mood": the page is downloaded again, and replaced
\* when the download succeeds
Refetch(cachePath) ==
  /\ call'.op = "fetchIrregularConjugations"
  /\ cachePath \in DOMAIN files
  /\ ~Includes(files[cachePath], "Indicative mood")
  /\ net' # net
  /\ cachePath \in DOMAIN files'

\* the step is a call of fetchIrregularConjugations without a page on disk
\* that fails on the suggestions on disk before any download
NoUrl(cachePath) ==
  /\ call'.op = "fetchIrregularConjugations"
  /\ SuggestionCache("anar") \in DOMAIN files
  /\ "error" \in DOMAIN call'.out
  /\ ~StartsWith(call'.out.error, "Failed to fetch")
  /\ net' = net
  /\ files' = files

C20_StaleWitness ==
  /\ call.op = "fetchIrregularConjugations"
  /\ PageCache("anar") \in DOMAIN files
  /\ \E a, b \in DOMAIN net :
       /\ a < b
       /\ net[a].ok
       /\ net[a].url = net[b].url
       /\ net[a].url \notin {FREQUENCY_URL, FREEDICT_SRC_URL,
                               SuggestionUrl("anar")}

---------------------------------------------------------------------------
(* The validator of the dataset (scripts/validate-verbs) *)

\* REQUIRED_BY_TENSE with the persons of the imperative required as well
REQUIRED_BY_TENSE_ImperativeToo == [t \in Range(TENSES) |-> PERSONS]

\* the persons whose form a tense must hold: none for the imperative
REQUIRED_BY_TENSE ==
  [t \in Range(TENSES) |-> IF t = "imperative" THEN <<>> ELSE PERSONS]

\* !value || typeof value !== "string" || !value.trim()
NoForm(tenseBlock, person) ==
  \/ person \notin DOMAIN tenseBlock
  \/ Trim(tenseBlock[person]) = ""

\* the loop over requiredPersons
RECURSIVE ValidatePersons(_, _, _, _, _)
ValidatePersons(tense, tenseBlock, requiredPersons, j, issues) ==
  IF j > Len(requiredPersons) THEN issues
  ELSE ValidatePersons(
         tense, tenseBlock, requiredPersons, j + 1,
         IF NoForm(tenseBlock, requiredPersons[j])
         THEN Append(issues, "missing-form:" \o tense \o ":"
                               \o requiredPersons[j])
         ELSE issues)

\* the loop over TENSES
RECURSIVE ValidateTenses(_, _, _)
ValidateTenses(verb, i, issues) ==
  IF i > Len(TENSES) THEN issues
  ELSE IF TENSES[i] \notin DOMAIN verb.tenses
  THEN ValidateTenses(verb, i + 1,
                      Append(issues, "missing-tense:" \o TENSES[i]))
  ELSE ValidateTenses(
         verb, i + 1,
         ValidatePersons(TENSES[i], verb.tenses[TENSES[i]],
                         REQUIRED_BY_TENSE[TENSES[i]], 1, issues))

\* the issues of a verb; a verb that is no object is Null
validateVerb(verb) ==
  IF verb = Null THEN <<"invalid-verb-object">>
  ELSE LET issues ==
             IF "infinitive" \notin DOMAIN verb \/ verb.infinitive = ""
             THEN <<"missing-infinitive">>
             ELSE <<>>
       IN  IF "tenses" \notin DOMAIN verb
           THEN Append(issues, "missing-tenses")
           ELSE ValidateTenses(verb, 1, issues)

\* a verb of the dataset with every form of every tense
CompleteVerb ==
  [infinitive |-> "anar",
   tenses |-> [t \in Range(TENSES) |-> [p \in Range(PERSONS) |-> "va"]]]

\* the number of differences between a verb handed to the validator and
\* CompleteVerb
MaxVerbEdits == 2

\* the cells that differ: of the first required tense, of a later one and of
\* the imperative; of the first person, the second and the last
EditedCells ==
  {"present", "future", "imperative"} \X {"jo", "tu", "ells"}

\* one difference: a value that is no object, no infinitive, an empty
\* infinitive, no tenses, a tense that is not there, a form that is not
\* there, a form that is empty or blank
VerbEdits ==
  {[kind |-> "none"], [kind |-> "notObject"], [kind |-> "noInfinitive"],
   [kind |-> "emptyInfinitive"], [kind |-> "noTenses"]}
  \cup {[kind |-> "dropTense", tense |-> t] : t \in Range(TENSES)}
  \cup {[kind |-> "dropForm", tense |-> c[1], person |-> c[2]] :
          c \in EditedCells}
  \cup {[kind |-> "form", tense |-> c[1], person |-> c[2], with |-> w] :
          c \in EditedCells, w \in {"", " "}}

Without(f, key) == [k \in DOMAIN f \ {key} |-> f[k]]

ApplyVerbEdit(verb, e) ==
  IF verb = Null \/ e.kind = "none" THEN verb
  ELSE IF e.kind = "notObject" THEN Null
  ELSE IF e.kind = "noInfinitive" THEN Without(verb, "infinitive")
  ELSE IF e.kind = "emptyInfinitive"
  THEN IF "infinitive" \in DOMAIN verb
       THEN [verb EXCEPT !.infinitive = ""] ELSE verb
  ELSE IF e.kind = "noTenses" THEN Without(verb, "tenses")
  ELSE IF "tenses" \notin DOMAIN verb \/ e.tense \notin DOMAIN verb.tenses
  THEN verb
  ELSE IF e.kind = "dropTense"
  THEN [verb EXCEPT !.tenses = Without(@, e.tense)]
  ELSE IF e.kind = "dropForm"
  THEN [verb EXCEPT !.tenses[e.tense] = Without(@, e.person)]
  ELSE IF e.person \in DOMAIN verb.tenses[e.tense]
  THEN [verb EXCEPT !.tenses[e.tense][e.person] = e.with]
  ELSE verb

RECURSIVE EditedVerbs(_)
EditedVerbs(n) ==
  IF n = 0 THEN {CompleteVerb}
  ELSE {ApplyVerbEdit(v, e) : v \in EditedVerbs(n - 1), e \in VerbEdits}

InitValidator ==
  /\ html \in EditedVerbs(MaxVerbEdits)
  /\ AppIdle
  /\ build = "current"
  /\ call = NoCall
  /\ BuildIdle
  /\ SessionIdle

CallValidateVerb ==
  /\ call = NoCall
  /\ call' = [op |-> "validateVerb", ret |-> validateVerb(html)]
  /\ EngineFrame

NextValidator == CallValidateVerb

SpecValidator == InitValidator /\ [][NextValidator]_vars

\* what a call of validateVerb was given and what it returned
Validated == call.op = "validateVerb"

IssueCount(issue) ==
  Cardinality({i \in DOMAIN call.ret : call.ret[i] = issue})

FormIssue(tense, person) == "missing-form:" \o tense \o ":" \o person

TenseIssue(tense) == "missing-tense:" \o tense

HasTenses == html # Null /\ "tenses" \in DOMAIN html

HasBlock(tense) == HasTenses /\ tense \in DOMAIN html.tenses

\* the cell of the verb is missing or blank
Gap(tense, person) ==
  \/ ~HasBlock(tense)
  \/ person \notin DOMAIN html.tenses[tense]
  \/ html.tenses[tense][person] \in {"", " "}

RequiredCells == (Range(TENSES) \ {"imperative"}) \X Range(PERSONS)

\* C21: validateVerb returns exactly one issue, naming tense and person, for
\* each required cell that is missing or blank, an empty list for a verb whose
\* required cells are all non-empty, and no issue for a form of the
\* imperative
C21_OneIssuePerMissingCell ==
  Validated =>
    /\ \A c \in RequiredCells :
         Gap(c[1], c[2]) => IssueCount(FormIssue(c[1], c[2])) = 1
    /\ (\A c \in RequiredCells : ~Gap(c[1], c[2])) => call.ret = <<>>
    /\ \A p \in Range(PERSONS) : IssueCount(FormIssue("imperative", p)) = 0

\* C21, amended: of a verb with a tenses object, each tense that is there
\* gets exactly one issue per required form that is missing or blank and no
\* other, the imperative none; a tense that is not there, the imperative
\* included, gets the one issue missing-tense and none per form; the list is
\* empty exactly when the verb has an infinitive, all seven tenses and every
\* required form.  A value that is no object, or has no tenses, gets no issue
\* per form and a list that is not empty.
C21_OneIssuePerGap ==
  Validated =>
    /\ HasTenses =>
         \A t \in Range(TENSES) :
           /\ IssueCount(TenseIssue(t)) = IF HasBlock(t) THEN 0 ELSE 1
           /\ \A p \in Range(PERSONS) :
                IssueCount(FormIssue(t, p)) =
                  IF HasBlock(t) /\ t # "imperative" /\ Gap(t, p)
                  THEN 1 ELSE 0
    /\ ~HasTenses =>
         /\ call.ret # <<>>
         /\ \A t \in Range(TENSES), p \in Range(PERSONS) :
              IssueCount(FormIssue(t, p)) = 0
    /\ call.ret = <<>> <=>
         /\ HasTenses
         /\ "infinitive" \in DOMAIN html /\ html.infinitive # ""
         /\ \A t \in Range(TENSES) : HasBlock(t)
         /\ \A c \in RequiredCells : ~Gap(c[1], c[2])

\* a verb with all its tenses whose future lacks the form of tu and whose
\* imperative lacks the form of jo: the one issue is the future's
C21_Witness ==
  /\ Validated
  /\ \A t \in Range(TENSES) : HasBlock(t)
  /\ "tu" \notin DOMAIN html.tenses["future"]
  /\ "jo" \notin DOMAIN html.tenses["imperative"]
  /\ call.ret = <<"missing-form:future:tu">>

\* a verb with every required form and no imperative: the list is not empty
C21_NoImperativeWitness ==
  /\ Validated
  /\ ~HasBlock("imperative")
  /\ \A c \in RequiredCells : ~Gap(c[1], c[2])
  /\ call.ret = <<"missing-tense:imperative">>

---------------------------------------------------------------------------
(* The generator of regular forms applied to infinitives *)

\* infinitives of the three groups, in -re and in -er, and words that are
\* no infinitive
RegularInfinitives ==
  {"parlar", "cantar", "dormir", "sentir", "perdre", "batre", "saber",
   "poder", "ar", "re", "a", "dir", "dur"}

InitRegular ==
  /\ html \in RegularInfinitives
  /\ AppIdle
  /\ build \in {"current", "legacy"}
  /\ call = NoCall
  /\ BuildIdle
  /\ SessionIdle

\* regularPresent(infinitive, group, person) with the group of the
\* infinitive: getGroup's in the build script, getVerbGroup's in the App
CallRegularPresent ==
  /\ call = NoCall
  /\ \E person \in Range(PERSONS) :
       LET group == IF build = "current" THEN getGroup(html)
                    ELSE getVerbGroup(html)
       IN  call' = [op |-> "regularPresent", group |-> group,
                    person |-> person,
                    ret |-> regularPresent(html, group, person)]
  /\ EngineFrame

NextRegular == CallRegularPresent

SpecRegular == InitRegular /\ [][NextRegular]_vars

PresentOfJo(infinitive) ==
  /\ call.op = "regularPresent"
  /\ call.person = "jo"
  /\ html = infinitive

\* C22: the regular present of jo is parlo for parlar (-ar), dormo for
\* dormir (-ir) and perdo for perdre (-er class), the group being the one
\* derived from the infinitive
C22_PresentOfJo ==
  /\ PresentOfJo("parlar") => call.group = "ar" /\ call.ret = "parlo"
  /\ PresentOfJo("dormir") => call.group = "ir" /\ call.ret = "dormo"
  /\ PresentOfJo("perdre") => call.group = "er" /\ call.ret = "perdo"

\* perdre, whose group getGroup finds by elimination, gives perdo
C22_Witness ==
  /\ PresentOfJo("perdre")
  /\ build = "current"
  /\ call.group = getGroup("perdre")
  /\ call.ret = "perdo"

---------------------------------------------------------------------------
(* The translations of the dataset *)

WrittenByCurrentBuild == Written /\ build = "current"

\* C23: every entry written to the dataset has a non-empty translation that
\* starts with "to ", whatever the gloss of the dictionary
C23_TranslationStartsWithTo ==
  WrittenByCurrentBuild =>
    \A i \in DOMAIN Dataset :
      /\ Dataset[i].translation # ""
      /\ StartsWith(Dataset[i].translation, "to ")

\* a dataset has been written with a translation that is the gloss as the
\* dictionary has it, separator first
C23_Witness ==
  /\ WrittenByCurrentBuild
  /\ \E i \in DOMAIN Dataset :
       /\ Dataset[i].infinitive = "tocar"
       /\ Dataset[i].translation = ", to touch"

\* the gloss "to" is written as "to to"
C23_SingleWordWitness ==
  /\ WrittenByCurrentBuild
  /\ \E i \in DOMAIN Dataset : Dataset[i].translation = "to to"

\* what the code keeps: no translation is empty, and each starts with "to "
\* or is a gloss with nothing before its first separator
C23_ToUnlessSeparatorFirst ==
  WrittenByCurrentBuild =>
    \A i \in DOMAIN Dataset :
      /\ Dataset[i].translation # ""
      /\ \/ StartsWith(Dataset[i].translation, "to ")
         \/ Char(Dataset[i].translation, 1) \in {",", ";"}

---------------------------------------------------------------------------
(* The retry loop of the earlier App.jsx applied to every input *)

InitRetry ==
  /\ verbs \in Datasets
  /\ enabledPersons \in PersonStates
  /\ enabledTenses \in TenseStates
  /\ verbFilters \in VerbFilterStates
  /\ verbLimit = DefaultVerbLimit
  /\ currentPrompt = Null
  /\ configError = FALSE
  /\ storedSettings = <<>>
  /\ mounted = FALSE
  /\ build = "legacy"
  /\ html = <<>>
  /\ call = NoCall
  /\ BuildIdle
  /\ SessionIdle

CallPickNextPromptLegacy ==
  /\ call = NoCall
  /\ \E lastKey \in LastKeys(verbs) :
       \E run \in pickNextPromptRuns(verbs, enabledPersons, enabledTenses,
                                     verbFilters, lastKey) :
         call' = [op |-> "pickNextPrompt", lastKey |-> lastKey,
                  ret |-> run.next, tries |-> run.tries]
  /\ EngineFrame

NextRetry == CallPickNextPromptLegacy

SpecRetry == InitRetry /\ [][NextRetry]_vars

\* the keys of the combinations of a verb, a person and a tense that pass the
\* filters of the earlier App.jsx
PassingKeys ==
  {PromptKey(verbs[i], p, t) :
     i \in {k \in DOMAIN verbs : IF IsRegular(verbs[k]) THEN verbFilters.regular
                                 ELSE verbFilters.irregular},
     p \in {q \in Range(PERSONS) : enabledPersons[q]},
     t \in {u \in Range(TENSES_Legacy) : enabledTenses[u]}}

PickedWithChoice ==
  /\ call.op = "pickNextPrompt"
  /\ build = "legacy"
  /\ Cardinality(PassingKeys) >= 2

\* C24: whenever at least two distinct combinations pass the filters, the
\* key of the prompt the retry loop returns differs from lastKey
C24_NeverRepeatsWithRetries ==
  PickedWithChoice => call.ret # Null /\ call.ret.key # call.lastKey

\* C24, amended: the loop draws again only while the prompt drawn has
\* lastKey's key and fewer than RetryLimit draws were made, so the returned
\* key differs from lastKey unless each of the RetryLimit draws gave it; a
\* prompt with another key is returned at the draw that gave it
C24_RepeatsOnlyAfterRetryLimit ==
  PickedWithChoice =>
    /\ call.ret # Null
    /\ call.tries \in 1..RetryLimit
    /\ call.ret.key = call.lastKey => call.tries = RetryLimit
    /\ call.tries > 1 => call.lastKey \in PassingKeys

\* two combinations pass and the loop has drawn a second time and returned a
\* prompt with another key than lastKey
C24_Witness ==
  /\ PickedWithChoice
  /\ call.tries = 2
  /\ call.lastKey # ""
  /\ call.ret.key # call.lastKey

\* two combinations pass and the prompt returned is the last one again
C24_RepeatWitness ==
  /\ PickedWithChoice
  /\ call.lastKey # ""
  /\ call.ret.key = call.lastKey

---------------------------------------------------------------------------
(* The analytics module (src/analytics.js) *)

\* trackEvent without its test of isInitialized and analyticsEnabled
trackEvent_Unguarded(event) ==
  [backend EXCEPT !.received = Append(@, event)]

\* the backend after trackEvent(event): amplitude.browser.track is called
\* when the module is initialised and enabled
trackEvent(event) ==
  IF ~isInitialized \/ ~analyticsEnabled THEN backend
  ELSE [backend EXCEPT !.received = Append(@, event)]

\* the backend after identifyUserProperties(properties)
identifyUserProperties ==
  IF ~isInitialized \/ ~analyticsEnabled THEN backend
  ELSE [backend EXCEPT !.received = Append(@, "setUserProperties")]

\* the calls a session makes of the module
MaxEvents == 3

AnalyticsFrame ==
  UNCHANGED <<verbs, enabledPersons, enabledTenses, verbFilters, verbLimit,
              currentPrompt, configError, storedSettings, mounted, build,
              html, BuildVars, inputValue, hintedIndices, hintsUsed,
              dailyGoal, dailyProgress, dailyDateKey, today, timer, apiKey>>

\* the module as it is loaded, with or without VITE_AMPLITUDE_KEY
InitAnalytics ==
  /\ AppIdle
  /\ build = "current"
  /\ html = <<>>
  /\ call = NoCall
  /\ BuildIdle
  /\ inputValue = ""
  /\ hintedIndices = {}
  /\ hintsUsed = 0
  /\ dailyGoal = 50
  /\ dailyProgress = 0
  /\ dailyDateKey = 1
  /\ today = 1
  /\ timer = NoTimer
  /\ isInitialized = FALSE
  /\ analyticsEnabled = FALSE
  /\ apiKey \in BOOLEAN
  /\ backend = NoBackend

CallInitAnalytics(shouldEnable) ==
  /\ call' = [op |-> "initAnalytics", arg |-> shouldEnable]
  /\ IF isInitialized
     THEN UNCHANGED <<isInitialized, analyticsEnabled, backend>>
     ELSE /\ analyticsEnabled' = shouldEnable
          /\ IF ~apiKey
             THEN UNCHANGED <<isInitialized, backend>>
             ELSE /\ backend' = [backend EXCEPT
                                   !.initAll = @ + 1,
                                   !.optedOut = ~shouldEnable]
                  /\ isInitialized' = TRUE
  /\ AnalyticsFrame

CallSetAnalyticsEnabled(value) ==
  /\ call' = [op |-> "setAnalyticsEnabled", arg |-> value]
  /\ analyticsEnabled' = value
  /\ backend' = IF ~isInitialized THEN backend
                ELSE [backend EXCEPT !.optedOut = ~value]
  /\ UNCHANGED isInitialized
  /\ AnalyticsFrame

CallTrackEvent ==
  /\ Len(backend.received) < MaxEvents
  /\ call' = [op |-> "trackEvent"]
  /\ backend' = trackEvent("track")
  /\ UNCHANGED <<isInitialized, analyticsEnabled>>
  /\ AnalyticsFrame

CallIdentifyUserProperties ==
  /\ Len(backend.received) < MaxEvents
  /\ call' = [op |-> "identifyUserProperties"]
  /\ backend' = identifyUserProperties
  /\ UNCHANGED <<isInitialized, analyticsEnabled>>
  /\ AnalyticsFrame

NextAnalytics ==
  \/ \E shouldEnable \in BOOLEAN : CallInitAnalytics(shouldEnable)
  \/ \E value \in BOOLEAN : CallSetAnalyticsEnabled(value)
  \/ CallTrackEvent
  \/ CallIdentifyUserProperties

SpecAnalytics == InitAnalytics /\ [][NextAnalytics]_vars

\* C26: trackEvent and identifyUserProperties forward nothing to the backend
\* while analytics is disabled or before initialisation has succeeded, and
\* the backend is initialised at most once
C26_RespectsOptOut ==
  [][/\ backend'.received # backend.received =>
          /\ isInitialized /\ analyticsEnabled
          /\ ~backend.optedOut
     /\ backend'.initAll <= 1
     /\ backend'.initAll # backend.initAll => ~isInitialized]_vars

\* the backend has received an event, analytics was then disabled, and a
\* trackEvent call has been made that it did not receive
C26_Witness ==
  /\ call.op = "trackEvent"
  /\ isInitialized
  /\ ~analyticsEnabled
  /\ backend.optedOut
  /\ backend.initAll = 1
  /\ Len(backend.received) = 1

\* without the key the module is never initialised and forwards nothing
C26_NoKeyWitness ==
  /\ call.op = "trackEvent"
  /\ ~apiKey
  /\ analyticsEnabled
  /\ ~isInitialized
  /\ backend = NoBackend

---------------------------------------------------------------------------
(* The answer input of the App: typing, hints and their effects *)

GOALS == <<25, 50, 100>>

\* the letters with a diacritic of the forms and, below each, the letter
\* NFD normalisation leaves of it
Accented == "àáèéíïòóúüç"

Unaccented == "aaeeiioouuc"

\* value.normalize("NFD").replace(/[\u0300-\u036f]/g, "")
RECURSIVE stripAccents(_)
stripAccents(value) ==
  IF Len(value) = 0 THEN ""
  ELSE LET c == Char(value, 1)
           at == {i \in 1..Len(Accented) : Char(Accented, i) = c}
       IN  (IF at = {} THEN c ELSE Char(Unaccented, CHOOSE i \in at : TRUE))
           \o stripAccents(SubSeq(value, 2, Len(value)))

baseChar(char) == stripAccents(toLowerCase(char))

\* s[index], 0-based: "" stands for undefined
At(s, index) == IF index < Len(s) THEN Char(s, index + 1) ELSE ""

getStatus(typedChar, expectedChar, isHinted) ==
  IF typedChar = "" THEN "empty"
  ELSE IF isHinted THEN "yellow"
  ELSE IF toLowerCase(typedChar) = toLowerCase(expectedChar) THEN "green"
  ELSE IF baseChar(toLowerCase(typedChar)) = baseChar(toLowerCase(expectedChar))
  THEN "yellow"
  ELSE "red"

\* the loop of findFirstRedIndex from position i on
RECURSIVE FirstRedFrom(_, _, _, _)
FirstRedFrom(typed, expected, hintedSet, i) ==
  IF i >= Len(typed) THEN -1
  ELSE IF At(expected, i) = "" THEN i
  ELSE IF getStatus(At(typed, i), At(expected, i), i \in hintedSet) = "red"
  THEN i
  ELSE FirstRedFrom(typed, expected, hintedSet, i + 1)

findFirstRedIndex(typed, expected, hintedSet) ==
  FirstRedFrom(typed, expected, hintedSet, 0)

\* the value handleInputChange hands to setInputValue
handleInputChange(expectedAnswer, hinted, rawValue) ==
  LET normalized == toLowerCase(rawValue)
      cut == IF Len(normalized) > Len(expectedAnswer)
             THEN SubSeq(normalized, 1, Len(expectedAnswer))
             ELSE normalized
      redIndex == findFirstRedIndex(cut, expectedAnswer, hinted)
  IN  IF expectedAnswer = "" THEN normalized
      ELSE IF redIndex # -1 THEN SubSeq(cut, 1, redIndex + 1)
      ELSE cut

\* the effect on [inputValue, expectedAnswer]: a hinted position stays
\* hinted while the input has the expected letter there
PruneHinted(prev, value, expectedAnswer) ==
  IF expectedAnswer = "" THEN prev
  ELSE {index \in prev :
          /\ At(value, index) # ""
          /\ toLowerCase(At(value, index))
               = toLowerCase(At(expectedAnswer, index))}

\* the while loop of handleHint: the first position whose letter is not
\* there or not the expected one
RECURSIVE HintIndex(_, _, _)
HintIndex(value, expectedLower, index) ==
  IF index >= Len(expectedLower) THEN index
  ELSE IF At(value, index) = "" THEN index
  ELSE IF toLowerCase(At(value, index)) # At(expectedLower, index) THEN index
  ELSE HintIndex(value, expectedLower, index + 1)

\* nextChars after the hint at index, joined and lowercased
Hinted(value, expectedAnswer, index) ==
  toLowerCase(
    IF index < Len(value)
    THEN SubSeq(value, 1, index) \o At(expectedAnswer, index)
           \o SubSeq(value, index + 2, Len(value))
    ELSE value \o At(expectedAnswer, index))

\* expectedAnswer of the render of the state
expectedAnswer == ExpectedOf(currentPrompt)

\* the hints taken on one prompt
MaxHints == 1

\* what the handlers of the input leave alone
InputFrame ==
  UNCHANGED <<verbs, enabledPersons, enabledTenses, verbFilters, verbLimit,
              currentPrompt, configError, storedSettings, mounted, build,
              html, BuildVars, dailyGoal, dailyProgress, dailyDateKey, today,
              isInitialized, analyticsEnabled, apiKey>>

\* the input element hands over rawValue; the render that follows runs the
\* effect on the hinted positions and the answer-completion effect
HandleInputChange(rawValue) ==
  /\ mounted /\ build = "current"
  /\ currentPrompt # Null
  /\ LET nextValue == handleInputChange(expectedAnswer, hintedIndices,
                                        rawValue)
     IN  /\ inputValue' = nextValue
         /\ hintedIndices' =
              PruneHinted(hintedIndices, nextValue, expectedAnswer)
         /\ timer' = CompletionEffect(
                       nextValue # inputValue, enabledPersons, enabledTenses,
                       verbFilters, verbLimit, currentPrompt, nextValue,
                       dailyGoal, hintsUsed)
  /\ call' = [op |-> "handleInputChange"]
  /\ UNCHANGED <<hintsUsed, backend>>
  /\ InputFrame

\* the hint button or the "?" key
HandleHint ==
  /\ mounted /\ build = "current"
  /\ currentPrompt # Null
  /\ hintsUsed < MaxHints
  /\ call' = [op |-> "handleHint"]
  /\ LET index == HintIndex(inputValue, toLowerCase(expectedAnswer), 0)
         nextValue == Hinted(inputValue, expectedAnswer, index)
     IN  IF expectedAnswer = "" \/ index >= Len(expectedAnswer)
         THEN UNCHANGED <<inputValue, hintedIndices, hintsUsed, timer,
                          backend>>
         ELSE /\ inputValue' = nextValue
              /\ hintedIndices' =
                   PruneHinted(hintedIndices \cup {index}, nextValue,
                               expectedAnswer)
              /\ hintsUsed' = hintsUsed + 1
              /\ backend' = trackEvent("hint_used")
              /\ timer' = CompletionEffect(
                            TRUE, enabledPersons, enabledTenses, verbFilters,
                            verbLimit, currentPrompt, nextValue, dailyGoal,
                            hintsUsed + 1)
  /\ InputFrame

\* the letters of the keyboard the model types
TypedChars == {"a", "g", "s", "v", "x", "V"}

\* the values the input element can hand over after one key: a letter put in
\* at the caret, a letter taken out at the caret
TypedValues(value) ==
  {SubSeq(value, 1, k) \o c \o SubSeq(value, k + 1, Len(value)) :
     k \in 0..Len(value), c \in TypedChars}
  \cup {SubSeq(value, 1, k - 1) \o SubSeq(value, k + 1, Len(value)) :
          k \in 1..Len(value)}

\* a dataset with the table of anar
TypingDataset ==
  << [infinitive |-> "anar", regular |-> FALSE, group |-> "ar", rank |-> 50,
      tenses |-> TensesAnar] >>

\* the App after its mount, with one of the prompts of the default filters
InitTyping ==
  /\ verbs = TypingDataset
  /\ build = "current"
  /\ enabledPersons = DefaultPersons
  /\ enabledTenses = DefaultTenses
  /\ verbFilters = DefaultVerbFilters
  /\ verbLimit = DefaultVerbLimit
  /\ currentPrompt \in
       pickNextPrompt(verbs, enabledPersons, enabledTenses, verbFilters,
                      verbLimit, "")
  /\ configError = FALSE
  /\ storedSettings =
       Persisted("current", enabledPersons, enabledTenses, verbFilters,
                 verbLimit)
  /\ mounted = TRUE
  /\ html = <<>>
  /\ call = NoCall
  /\ BuildIdle
  /\ SessionIdle

NextTyping ==
  \/ \E rawValue \in TypedValues(inputValue) : HandleInputChange(rawValue)
  \/ HandleHint

SpecTyping == InitTyping /\ [][NextTyping]_vars

\* the status the render gives the letter at a position of the input
StatusAt(index) ==
  getStatus(At(inputValue, index), At(expectedAnswer, index),
            index \in hintedIndices)

Typing == mounted /\ build = "current" /\ currentPrompt # Null

\* C25: the input is never longer than the expected answer, and a letter
\* whose status is red is the last letter of the input
C25_RedStopsInput ==
  Typing =>
    /\ Len(inputValue) <= Len(expectedAnswer)
    /\ \A index \in 0..(Len(inputValue) - 1) :
         StatusAt(index) = "red" => index = Len(inputValue) - 1

\* after a hint, a red letter with a letter after it
C25_Witness ==
  /\ Typing
  /\ hintsUsed > 0
  /\ \E index \in 0..(Len(inputValue) - 2) : StatusAt(index) = "red"

\* what the code keeps: the input is never longer than the expected answer,
\* and without a hint on the prompt a red letter is the last one
C25_RedStopsInputWithoutHint ==
  Typing =>
    /\ Len(inputValue) <= Len(expectedAnswer)
    /\ hintsUsed = 0 =>
         \A index \in 0..(Len(inputValue) - 1) :
           StatusAt(index) = "red" => index = Len(inputValue) - 1

---------------------------------------------------------------------------
(* A practice session: filters, answers, goals and the completion timer *)

\* the answers a session counts on one day
MaxProgress == 2

\* the days a session lasts
MaxDays == 2

HandleGoalChange(goal) ==
  /\ mounted /\ build = "current"
  /\ dailyGoal' = goal
  /\ timer' = CompletionEffect(
                goal # dailyGoal, enabledPersons, enabledTenses, verbFilters,
                verbLimit, currentPrompt, inputValue, goal, hintsUsed)
  /\ backend' = trackEvent("settings_changed")
  /\ call' = [op |-> "handleGoalChange"]
  /\ UNCHANGED <<verbs, enabledPersons, enabledTenses, verbFilters, verbLimit,
                 currentPrompt, configError, storedSettings, mounted, build,
                 html, BuildVars, inputValue, hintedIndices, hintsUsed,
                 dailyProgress, dailyDateKey, today, isInitialized,
                 analyticsEnabled, apiKey>>

\* midnight: getLocalDateKey() returns the next day from now on
DayPasses ==
  /\ mounted /\ build = "current"
  /\ today < MaxDays
  /\ today' = today + 1
  /\ call' = [op |-> "midnight"]
  /\ UNCHANGED <<verbs, enabledPersons, enabledTenses, verbFilters, verbLimit,
                 currentPrompt, configError, storedSettings, mounted, build,
                 html, BuildVars, inputValue, hintedIndices, hintsUsed,
                 dailyGoal, dailyProgress, dailyDateKey, timer, isInitialized,
                 analyticsEnabled, apiKey, backend>>

\* The callback of the timeout, 300 ms after the render that set it: the
\* answer is counted, a prompt is picked with the filters the callback closed
\* over and installed, the input is cleared; the prompt effects of the render
\* that follows run with the filters of the state.
TimeoutFires ==
  /\ mounted /\ build = "current"
  /\ timer.pending
  /\ dailyProgress < MaxProgress
  /\ dailyDateKey' = today
  /\ dailyProgress' = IF dailyDateKey = today THEN dailyProgress + 1 ELSE 1
  /\ \E next \in pickNextPrompt(verbs, timer.enabledPersons,
                                timer.enabledTenses, timer.verbFilters,
                                timer.verbLimit, timer.currentPrompt.key) :
       \E e \in PromptEffects(verbs, next, configError, enabledPersons,
                              enabledTenses, verbFilters, verbLimit,
                              MaxRenders) :
         /\ currentPrompt' = e.prompt
         /\ configError' = e.configError
         /\ call' = [op |-> "timeout", installed |-> next]
  /\ inputValue' = ""
  /\ hintedIndices' = {}
  /\ hintsUsed' = 0
  /\ timer' = NoTimer
  /\ backend' = trackEvent("prompt_completed")
  /\ UNCHANGED <<verbs, enabledPersons, enabledTenses, verbFilters, verbLimit,
                 storedSettings, mounted, build, html, BuildVars, dailyGoal,
                 today, isInitialized, analyticsEnabled, apiKey>>

\* datasets of a session: two verbs of different ranks, and one verb with a
\* single form
PracticeDatasets ==
  { << [infinitive |-> "anar", regular |-> FALSE, group |-> "ar",
        rank |-> 50, tenses |-> TensesAnar],
       [infinitive |-> "parlar", regular |-> TRUE, group |-> "ar",
        rank |-> 150, tenses |-> TensesParlar] >>,
    << [infinitive |-> "cantar", tenses |-> [present |-> [jo |-> "canto"]]] >> }

\* the rank limits and the goals the user of a session chooses among
PracticeLimits == {VERB_LIMITS[1], VERB_LIMITS[2]}

PracticeGoals == {GOALS[1], GOALS[2]}

\* the App after its mount, with one of the prompts of the default filters
InitPractice ==
  /\ verbs \in PracticeDatasets
  /\ build = "current"
  /\ enabledPersons = DefaultPersons
  /\ enabledTenses = DefaultTenses
  /\ verbFilters = DefaultVerbFilters
  /\ verbLimit = DefaultVerbLimit
  /\ currentPrompt \in
       pickNextPrompt(verbs, enabledPersons, enabledTenses, verbFilters,
                      verbLimit, "")
  /\ configError = FALSE
  /\ storedSettings =
       Persisted("current", enabledPersons, enabledTenses, verbFilters,
                 verbLimit)
  /\ mounted = TRUE
  /\ html = <<>>
  /\ call = NoCall
  /\ BuildIdle
  /\ SessionIdle

NextPractice ==
  \/ \E person \in ModelPersons : TogglePerson(person)
  \/ \E key \in VERB_FILTER_KEYS : ToggleVerbFilter(key)
  \/ \E limit \in PracticeLimits : HandleVerbLimitChange(limit)
  \/ \E rawValue \in {"", expectedAnswer} : HandleInputChange(rawValue)
  \/ HandleHint
  \/ \E goal \in PracticeGoals : HandleGoalChange(goal)
  \/ DayPasses
  \/ TimeoutFires

SpecPractice == InitPractice /\ [][NextPractice]_vars

---------------------------------------------------------------------------
(* Filter changes, the completion timer and the daily count *)

\* the filter state of the App
Filters == <<enabledPersons, enabledTenses, verbFilters, verbLimit>>

\* isPromptAllowed under the filters of the state
AllowedNow(prompt) ==
  isPromptAllowed(verbs, prompt, enabledPersons, enabledTenses, verbFilters,
                  verbLimit)

\* what the App renders below the settings: nothing without a prompt
\* (if (!currentPrompt) return null), else the question of the prompt
DisplayedAsQuestion(prompt) == prompt # Null

\* C27: after a filter change that makes the displayed prompt invalid, when
\* the new filter state has a valid instance the prompt is replaced by an
\* instance valid under the new filters and the typed input is cleared;
\* when it has none, the configuration error is set and the invalid prompt
\* is not left displayed as a question.
C27_InvalidPromptNeverLeft ==
  [][(/\ Filters' # Filters
      /\ currentPrompt # Null
      /\ ~isPromptAllowed(verbs, currentPrompt, enabledPersons',
                          enabledTenses', verbFilters', verbLimit'))
     => IF hasAvailablePrompts(verbs, enabledPersons', enabledTenses',
                               verbFilters', verbLimit')
        THEN /\ currentPrompt' # Null
             /\ isPromptAllowed(verbs, currentPrompt', enabledPersons',
                                enabledTenses', verbFilters', verbLimit')
             /\ inputValue' = ""
        ELSE /\ configError'
             /\ ~(/\ DisplayedAsQuestion(currentPrompt')
                  /\ ~isPromptAllowed(verbs, currentPrompt', enabledPersons',
                                      enabledTenses', verbFilters',
                                      verbLimit'))]_vars

\* a rank-limit change left no valid instance: the configuration error is
\* set and the prompt of a verb above the limit is still the question
C27_Witness ==
  /\ call.op = "handleVerbLimitChange"
  /\ configError
  /\ ~hasAvailablePrompts(verbs, enabledPersons, enabledTenses, verbFilters,
                          verbLimit)
  /\ DisplayedAsQuestion(currentPrompt)
  /\ ~AllowedNow(currentPrompt)

\* the half of C27 the code keeps: with a valid instance left, the prompt is
\* replaced by a valid one and the input is cleared
C27_ReplacedWhenInstanceLeft ==
  [][(/\ Filters' # Filters
      /\ currentPrompt # Null
      /\ ~isPromptAllowed(verbs, currentPrompt, enabledPersons',
                          enabledTenses', verbFilters', verbLimit')
      /\ hasAvailablePrompts(verbs, enabledPersons', enabledTenses',
                             verbFilters', verbLimit'))
     => /\ currentPrompt' # Null
        /\ isPromptAllowed(verbs, currentPrompt', enabledPersons',
                           enabledTenses', verbFilters', verbLimit')
        /\ inputValue' = ""]_vars

\* C28: the prompt installed when the completion timer fires is valid under
\* the filter state current at the moment it fires.
C28_InstalledPromptValid ==
  call.op = "timeout" =>
    /\ call.installed # Null
    /\ AllowedNow(call.installed)

\* the timer set before a rank-limit change installed the prompt of a verb
\* above the limit of the state
C28_Witness ==
  /\ call.op = "timeout"
  /\ call.installed # Null
  /\ ~AllowedNow(call.installed)
  /\ "rank" \in DOMAIN call.installed.verb
  /\ call.installed.verb.rank > verbLimit

\* the timer of the only valid instance installed no prompt
C28_NullWitness ==
  /\ call.op = "timeout"
  /\ call.installed = Null

\* a step of the timeout callback
TimeoutStep == timer.pending /\ call'.op = "timeout"

\* C29: a completed answer is counted once: the timer fires at most once per
\* completed answer, the daily progress grows by one when it fires (or
\* restarts at one on a new day), and the prompt is replaced exactly once.
C29_CountedAndReplacedOnce ==
  [][TimeoutStep =>
       /\ ~timer'.pending
       /\ dailyProgress' =
            IF dailyDateKey = today THEN dailyProgress + 1 ELSE 1
       /\ currentPrompt' # currentPrompt
       /\ currentPrompt' = call'.installed]_vars

\* the timer fired and the prompt it installed was replaced again by the
\* prompt effects of the same event
C29_Witness ==
  /\ call.op = "timeout"
  /\ dailyProgress >= 1
  /\ currentPrompt # call.installed

\* the timer and the count alone: one firing per completed answer, one more
\* answer counted
C29_CountedOnce ==
  [][TimeoutStep =>
       /\ ~timer'.pending
       /\ dailyDateKey' = today
       /\ dailyProgress' =
            IF dailyDateKey = today THEN dailyProgress + 1 ELSE 1]_vars

\* the count restarted at one on a new day
C29_NewDayWitness ==
  /\ call.op = "timeout"
  /\ dailyProgress = 1
  /\ dailyDateKey = 2

---------------------------------------------------------------------------
(* The entries of the 500-verb build before the validator *)

\* the entry the loop over selected pushes for a verb, as validateVerb reads
\* it: the validator looks at the infinitive and at the tenses alone
EmittedEntry(infinitive, tenses) ==
  [infinitive |-> infinitive, tenses |-> tenses]

\* C30: whatever the page, when parseConjugationsFromHtml succeeds for a
\* selected verb, validateVerb returns no issue for the entry the build
\* emits for the verb.
C30_ParsedEntryPassesValidator ==
  (call.op = "parseConjugationsFromHtml" /\ "tenses" \in DOMAIN call.ret) =>
    validateVerb(EmittedEntry(call.infinitive, call.ret.tenses)) = <<>>

\* a page without the table of the imperative, with a row of a required
\* tense that differs from the source's, was parsed and its entry validated
C30_Witness ==
  /\ call.op = "parseConjugationsFromHtml"
  /\ "tenses" \in DOMAIN call.ret
  /\ "imperative" \notin DOMAIN html
  /\ \E t \in RequiredTenses : html[t] # SourceRows
  /\ call.ret.tenses.imperative = <<>>
  /\ validateVerb(EmittedEntry(call.infinitive, call.ret.tenses)) = <<>>

\* C30 over the whole build: every entry of the dataset the 500-verb build
\* writes passes the validator
C30_DatasetPassesValidator ==
  WrittenByCurrentBuild =>
    \A i \in DOMAIN Dataset : validateVerb(Dataset[i]) = <<>>

\* a dataset with an entry has been written by the 500-verb build
C30_DatasetWitness ==
  /\ WrittenByCurrentBuild
  /\ Len(Dataset) > 0

====
